---- MODULE Spec2Model ----
(***************************************************************************)
(* Axom's array layer: the shape/stride policy ArrayBase<T, DIM, ArrayType> *)
(* (axom/core/ArrayBase.hpp), the element lifecycle operators ArrayOpsBase  *)
(* (same file), the allocation primitives (axom/core/memory_management.hpp) *)
(* and the capacity bookkeeping of the resizable Array (sidre/core/Array.hpp*)
(* : updateNumTuples, setCapacity, dynamicRealloc).                         *)
(*                                                                         *)
(* One owning array is modelled.  Its leading extent is the number of      *)
(* tuples, the product of its trailing extents is the number of components *)
(* per tuple (ArrayBase::blockSize()), and its buffer holds                *)
(* m_capacity * m_num_components slots.  Indices are zero-based in the      *)
(* code and one-based in the sequences below: slot i of the code is         *)
(* m_data[i + 1].                                                           *)
(*                                                                         *)
(* m_resize_ratio holds TWICE the C++ double (2 is 1.0, 3 is 1.5, 4 is      *)
(* 2.0), so that `n * ratio + 0.5` truncated to IndexType is the integer    *)
(* (n * m_resize_ratio + 1) \div 2.                                         *)
(***************************************************************************)
EXTENDS Integers, Sequences, FiniteSets, TLC

\* ------------------------------------------------------------------ bounds
\* Largest number of live elements a growing operation may produce.
MaxElems == 4
\* Largest leading extent of the array-like handed to insert.
MaxOther == 1
\* Largest capacity (in tuples) a caller passes to reserve().
MaxReserve == 2

\* Largest extent of an axis of the arrays that are indexed.
MaxExtent == 3

\* Storage that holds no live object: fresh from std::malloc/std::realloc, or
\* left behind by a destructor.
Raw == -1
\* The value of a value-initialised element, `new(data + i) T()`.
DefaultVal == 0
\* A null T*: the array has no buffer.
NullPtr == <<>>
\* Content of an ArrayBase member that no constructor has written yet.
Unset == -7

\* The values a caller stores: what T() yields and one other value.  The
\* code never inspects an element, so two values tell any two slots apart.
Vals == {0, 1}
\* Twice the resize ratios a caller may configure: 0.5, 1.0, 1.5, 2.0.
ResizeRatios == {1, 2, 3, 4}
\* The builds followed, as <<AXOM_DEBUG, is_trivially_destructible>>: a debug
\* build holding elements with a destructor, a release build holding
\* trivially destructible elements.
Builds == {<<TRUE, FALSE>>, <<FALSE, TRUE>>}
\* Trailing extents of the modelled arrays: DIM = 1 and DIM = 3.
TrailingExtents == {<<>>, <<1, 2>>}

VARIABLES
  AXOM_DEBUG,                 \* build flag: assertions and debug checks active
  is_trivially_destructible,  \* std::is_trivially_destructible<T>::value
  m_dims,                     \* ArrayBase: extents (<<>> for the 1-D specialization)
  m_strides,                  \* ArrayBase: strides (<<>> for the 1-D specialization)
  m_num_tuples,               \* Array: leading extent in use
  m_capacity,                 \* Array: tuples allocated
  m_num_components,           \* Array: elements per tuple
  m_resize_ratio,             \* Array: twice the growth ratio
  m_is_external,              \* Array: wraps caller-owned data
  m_data,                     \* Array: the buffer's slots, NullPtr when none
  abort_msg,                  \* "" while running, else the fatal diagnostic
  ctor_log,                   \* slots constructed by the last operation, in order
  dtor_log,                   \* slots whose destructor the last operation ran
  last,                       \* the last operation, its arguments and pre-state
  m_allocator_id,             \* Array: the allocator its buffer came from
  views,                      \* the ArrayView objects alive, oldest first
  heap,                       \* the allocator's blocks and the blocks released
  caller_ptr,                 \* a caller's T* variable given to alloc/free/realloc
  m_view,                     \* sidre Array: the sidre::View holding its data
  s_mem_space,                \* internal::s_mem_space, one per translation unit
  arrays,                     \* the owning Array objects of a program
  dataview                    \* a sidre DataView and the buffer it is attached to

vars ==
  <<AXOM_DEBUG, is_trivially_destructible, m_dims, m_strides, m_num_tuples,
    m_capacity, m_num_components, m_resize_ratio, m_is_external, m_data,
    abort_msg, ctor_log, dtor_log, last, m_allocator_id, views, heap,
    caller_ptr, m_view, s_mem_space, arrays, dataview>>

\* The variables of the sidre view, the memory space registry, the program
\* of owning Arrays and the DataView, which the operations on one array, on
\* views and on raw memory leave alone.
other_objects == <<m_view, s_mem_space, arrays, dataview>>

\* ----------------------------------------------------------------- helpers
\* detail::packProduct: the product of a pack of extents.
RECURSIVE packProduct(_)
packProduct(arr) ==
  IF arr = <<>> THEN 1 ELSE Head(arr) * packProduct(Tail(arr))

\* The array object as a record, so that an operation is a function of it.
Self ==
  [m_dims |-> m_dims, m_strides |-> m_strides, m_num_tuples |-> m_num_tuples,
   m_capacity |-> m_capacity, m_num_components |-> m_num_components,
   m_resize_ratio |-> m_resize_ratio, m_is_external |-> m_is_external,
   m_data |-> m_data, abort_msg |-> "", ctor_log |-> <<>>, dtor_log |-> <<>>]

\* utilities::processAbort() / SLIC_ERROR: the process ends with a diagnostic.
processAbort(a, msg) == [a EXCEPT !.abort_msg = msg]

\* ------------------------------------------------- memory_management.hpp
\* axom::realloc(pointer, n): n == 0 frees and returns null; otherwise
\* std::realloc, which keeps the first min(old, n) slots, leaves the rest
\* uninitialised, and returns null when it fails (ok = FALSE).
\* A reallocation that hands back a fresh block without the old contents.
realloc_fresh(pointer, n, ok) ==
  IF n = 0 \/ ~ok THEN NullPtr ELSE [i \in 1..n |-> Raw]

realloc(pointer, n, ok) ==
  IF n = 0 THEN NullPtr
  ELSE IF ~ok THEN NullPtr
  ELSE [i \in 1..n |-> IF i <= Len(pointer) THEN pointer[i] ELSE Raw]

\* ------------------------------------------------ ArrayBase.hpp: ArrayOps
\* ArrayOpsBase<T, false>::init: placement-new T() on each slot of [begin, end).
RECURSIVE init(_, _, _)
init(a, begin, end) ==
  IF begin < end
  THEN init([a EXCEPT !.m_data[begin + 1] = DefaultVal,
                      !.ctor_log = Append(@, begin)], begin + 1, end)
  ELSE a

\* std::uninitialized_fill_n(array, n, value): copy-constructs value on each
\* of the slots i, ..., n - 1 in turn.
RECURSIVE uninitialized_fill_n(_, _, _, _)
uninitialized_fill_n(a, i, n, value) ==
  IF i < n
  THEN uninitialized_fill_n([a EXCEPT !.m_data[i + 1] = value,
                                      !.ctor_log = Append(@, i)],
                            i + 1, n, value)
  ELSE a

\* A fill that runs to the end of the buffer.
ArrayOpsBase_fill_all(a, n, value) ==
  uninitialized_fill_n(a, 0, Len(a.m_data), value)

\* ArrayOpsBase<T, false>::fill.
ArrayOpsBase_fill(a, n, value) == uninitialized_fill_n(a, 0, n, value)

\* ArrayOps<T, SPACE>::fill: the base's fill, the allocator ID unused.
fill(a, n, value) == ArrayOpsBase_fill(a, n, value)

\* ArrayOpsBase<T, false>::emplace: placement-new T(args...) at slot i.
emplace(a, i, value) ==
  [a EXCEPT !.m_data[i + 1] = value, !.ctor_log = Append(@, i)]

\* ArrayOpsBase<T, false>::destroy: ~T() on each slot of [begin, end), nothing
\* at all when T is trivially destructible.
RECURSIVE destroyLoop(_, _, _)
destroyLoop(a, i, end) ==
  IF i < end
  THEN destroyLoop([a EXCEPT !.m_data[i + 1] = Raw,
                             !.dtor_log = Append(@, i)], i + 1, end)
  ELSE a

\* A destroy that runs the loop whatever the element type.
ArrayOpsBase_destroy_always(a, begin, end) == destroyLoop(a, begin, end)

ArrayOpsBase_destroy(a, begin, end) ==
  IF ~is_trivially_destructible THEN destroyLoop(a, begin, end) ELSE a

\* A destroy that starts at the front of the buffer instead of at begin.
destroy_from_front(a, begin, end) ==
  IF a.m_data = NullPtr \/ end <= begin THEN a
  ELSE ArrayOpsBase_destroy(a, 0, end)

\* ArrayOps<T, SPACE>::destroy: returns at once on a null array or empty range.
destroy(a, begin, end) ==
  IF a.m_data = NullPtr \/ end <= begin THEN a
  ELSE ArrayOpsBase_destroy(a, begin, end)

\* A move that relocates one element too few.
ArrayOpsBase_move_short(array, src_begin, src_end, dst) ==
  [i \in 1..Len(array) |->
     IF i - 1 >= dst /\ i - 1 < dst + (src_end - src_begin) - 1
     THEN array[(i - 1) - dst + src_begin + 1]
     ELSE array[i]]

\* A move that copies element by element from the front, reading slots it
\* has already overwritten when the destination overlaps the source from above.
RECURSIVE forward_copy(_, _, _, _)
forward_copy(array, src, n, dst) ==
  IF n > 0
  THEN forward_copy([array EXCEPT ![dst + 1] = array[src + 1]],
                    src + 1, n - 1, dst + 1)
  ELSE array

ArrayOpsBase_move_forward(array, src_begin, src_end, dst) ==
  forward_copy(array, src_begin, src_end - src_begin, dst)

\* ArrayOpsBase<T, false>::move: std::memmove of [src_begin, src_end) to dst.
ArrayOpsBase_move(array, src_begin, src_end, dst) ==
  [i \in 1..Len(array) |->
     IF i - 1 >= dst /\ i - 1 < dst + (src_end - src_begin)
     THEN array[(i - 1) - dst + src_begin + 1]
     ELSE array[i]]

\* ArrayOps<T, SPACE>::move: returns at once on an empty source range.
move(array, src_begin, src_end, dst) ==
  IF src_begin >= src_end THEN array
  ELSE ArrayOpsBase_move(array, src_begin, src_end, dst)

\* ------------------------------------------------ ArrayBase.hpp: ArrayBase
\* ArrayBase::updateStrides: row-major, from the last axis to the first.
RECURSIVE updateStridesLoop(_, _, _)
updateStridesLoop(dims, strides, i) ==
  IF i >= 1
  THEN updateStridesLoop(
         dims, [strides EXCEPT ![i] = strides[i + 1] * dims[i + 1]], i - 1)
  ELSE strides

\* A constructor or insert that forgets the recomputation.
updateStrides_stale(dims, strides) == strides

updateStrides(dims, strides) ==
  updateStridesLoop(dims, [strides EXCEPT ![Len(dims)] = 1], Len(dims) - 1)

\* ArrayBase::ArrayBase(Args... args): the extents, then updateStrides().
\* The 1-D specialization stores nothing.
ArrayBase_ctor(args) ==
  IF Len(args) = 1
  THEN [m_dims |-> <<>>, m_strides |-> <<>>]
  ELSE [m_dims |-> args,
        m_strides |-> updateStrides(args, [i \in 1..Len(args) |-> Unset])]

\* ArrayBase::ArrayBase(const ArrayBase<.., OtherArrayType>& other): the
\* metadata of another array-like, member by member.
ArrayBase_copy(other) ==
  [m_dims |-> other.m_dims, m_strides |-> other.m_strides]

\* ArrayBase::swap: exchanges extents and strides with another ArrayBase.
\* The result is the pair <<this, other>> after the call.
ArrayBase_swap(a, other) ==
  <<[a EXCEPT !.m_dims = other.m_dims, !.m_strides = other.m_strides],
    [other EXCEPT !.m_dims = a.m_dims, !.m_strides = a.m_strides]>>

\* numerics::dot_product(u, v, dim): the sum of u[i] * v[i] over dim entries.
RECURSIVE dot_product(_, _, _)
dot_product(u, v, dim) ==
  IF dim = 0 THEN 0 ELSE dot_product(u, v, dim - 1) + u[dim] * v[dim]

\* An operator() that weighs the indices by the extents, not the strides.
flatIndex_by_extent(a, indices) ==
  dot_product(indices, a.m_dims, Len(a.m_dims))

\* ArrayBase::operator()(args...): the flat offset idx it computes.
flatIndex(a, indices) ==
  dot_product(indices, a.m_strides, Len(a.m_dims))

\* ------------------------------------------------- sidre Array (part_002)
\* Array::updateNumTuples.  Its SLIC_ASSERTs are active in debug builds.
updateNumTuples(a, new_num_tuples) ==
  IF AXOM_DEBUG /\ new_num_tuples < 0
  THEN processAbort(a, "new_num_tuples >= 0")
  ELSE IF AXOM_DEBUG /\ new_num_tuples > a.m_capacity
  THEN processAbort(a, "new_num_tuples <= m_capacity")
  ELSE [a EXCEPT !.m_num_tuples = new_num_tuples]

\* A setCapacity that ignores a request to lower the capacity.
setCapacity_grow_only(a, new_capacity, ok) ==
  IF new_capacity <= a.m_capacity THEN a
  ELSE LET a1 == [a EXCEPT !.m_capacity = new_capacity]
       IN [a1 EXCEPT !.m_data =
             realloc(a1.m_data, a1.m_capacity * a1.m_num_components, TRUE)]

\* Array::setCapacity: the capacity first, then the number of tuples when it
\* no longer fits, then the reallocation.
setCapacity(a, new_capacity, ok) ==
  IF AXOM_DEBUG /\ new_capacity < 0
  THEN processAbort(a, "new_capacity >= 0")
  ELSE
    LET a1 == [a EXCEPT !.m_capacity = new_capacity]
        a2 == IF a1.m_capacity < a1.m_num_tuples
              THEN updateNumTuples(a1, a1.m_capacity)
              ELSE a1
        a3 == [a2 EXCEPT !.m_data =
                 realloc(a2.m_data, a2.m_capacity * a2.m_num_components, ok)]
    IN IF a2.abort_msg # "" THEN a2
       ELSE IF a3.m_data = NullPtr /\ a3.m_capacity > 0
       THEN processAbort(a3, "Array reallocation failed.")
       ELSE a3

\* dynamicRealloc without its guard on the resize ratio.
dynamicRealloc_unguarded(a, new_num_tuples, ok) ==
  LET a1 == [a EXCEPT !.m_capacity =
               (new_num_tuples * a.m_resize_ratio + 1) \div 2]
  IN [a1 EXCEPT !.m_data =
        realloc(a1.m_data, a1.m_capacity * a1.m_num_components, TRUE)]

\* dynamicRealloc growing from the tuples held instead of the tuples asked for.
dynamicRealloc_from_held(a, new_num_tuples, ok) ==
  LET a1 == [a EXCEPT !.m_capacity =
               (a.m_num_tuples * a.m_resize_ratio + 1) \div 2]
  IN [a1 EXCEPT !.m_data =
        realloc(a1.m_data, a1.m_capacity * a1.m_num_components, TRUE)]

\* dynamicRealloc truncating without the + 0.5.
dynamicRealloc_truncated(a, new_num_tuples, ok) ==
  LET a1 == [a EXCEPT !.m_capacity =
               (new_num_tuples * a.m_resize_ratio) \div 2]
  IN [a1 EXCEPT !.m_data =
        realloc(a1.m_data, a1.m_capacity * a1.m_num_components, TRUE)]

\* dynamicRealloc without its guard on external data.
dynamicRealloc_external(a, new_num_tuples, ok) ==
  LET a1 == [a EXCEPT !.m_capacity =
               (new_num_tuples * a.m_resize_ratio + 1) \div 2]
  IN [a1 EXCEPT !.m_data =
        realloc(a1.m_data, a1.m_capacity * a1.m_num_components, TRUE)]

\* Array::dynamicRealloc: fatal on external data and on a ratio below 1.0;
\* the new capacity is new_num_tuples * m_resize_ratio + 0.5, truncated.
dynamicRealloc(a, new_num_tuples, ok) ==
  IF a.m_is_external
  THEN processAbort(a, "Cannot change the capacity of external data.")
  ELSE IF a.m_resize_ratio < 2
  THEN processAbort(a, "Resize ratio doesn't support dynamic resizing")
  ELSE
    LET a1 == [a EXCEPT !.m_capacity =
                 (new_num_tuples * a.m_resize_ratio + 1) \div 2]
        a2 == [a1 EXCEPT !.m_data =
                 realloc(a1.m_data, a1.m_capacity * a1.m_num_components, ok)]
    IN IF a2.m_data = NullPtr /\ a2.m_capacity > 0
       THEN processAbort(a2, "Array reallocation failed.")
       ELSE a2

\* ------------------------------------ sidre Array over a sidre::View
\* A sidre::View: whether it is empty (no description, no data), its type,
\* its shape, and the buffer it holds as the buffer's slots.
nullview == <<>>

EmptyView == [empty |-> TRUE, typeID |-> "none", shape |-> <<>>, buffer |-> NullPtr]

\* The sidre::TypeID of the array's element type.
sidreTypeId == "T"

\* View::getBuffer()->getNumElements().
getNumElements(v) == Len(v.buffer)

\* View::getDimension(i): the extent of axis i of the view's shape.
getDimension(v, i) == v.shape[i + 1]

\* View::allocate(type, n): describes the view as n elements of the type and
\* gives it a buffer of n elements.
View_allocate(v, type, n) ==
  [empty |-> FALSE, typeID |-> type, shape |-> <<n>>,
   buffer |-> [i \in 1..n |-> Raw]]

\* View::reallocate(n): the buffer becomes n elements long, keeping the
\* elements that fit.
View_reallocate(v, n) ==
  [v EXCEPT !.shape = <<n>>,
            !.buffer = [i \in 1..n |-> IF i <= Len(v.buffer) THEN v.buffer[i]
                                       ELSE Raw]]

\* View::apply(type, ndims, dims): the description becomes the given shape.
View_apply(v, type, dims) == [v EXCEPT !.typeID = type, !.shape = dims]

\* What an operation of the sidre Array leaves: the array and its view.
Both(a, v) == [a |-> a, view |-> v]

\* Array::describeView: m_view is described as (m_num_tuples, m_num_components).
describeView(a, v) ==
  View_apply(v, sidreTypeId, <<a.m_num_tuples, a.m_num_components>>)

\* Array::getViewShape(dim): fatal on an empty view and on a view that is not
\* two-dimensional.
getViewShape(v, dim) == v.shape[dim + 1]

\* Array::reallocViewData: allocate on an empty view, reallocate otherwise,
\* then describe the view and take its data pointer.
reallocViewData(a, v) ==
  LET n == a.m_capacity * a.m_num_components
      v1 == IF v.empty THEN View_allocate(v, sidreTypeId, n)
            ELSE View_reallocate(v, n)
      v2 == describeView(a, v1)
      a1 == [a EXCEPT !.m_data = v2.buffer]
  IN IF a1.m_data = NullPtr /\ a1.m_capacity > 0
     THEN Both(processAbort(a1, "Array reallocation failed."), v2)
     ELSE Both(a1, v2)

\* Array::updateNumTuples of an array with a view: the view is described anew.
sidre_updateNumTuples(a, v, new_num_tuples) ==
  LET a1 == updateNumTuples(a, new_num_tuples)
  IN IF a1.abort_msg # "" THEN Both(a1, v)
     ELSE IF v # nullview THEN Both(a1, describeView(a1, v))
     ELSE Both(a1, v)

\* A setCapacity that leaves the number of tuples as it is.
sidre_setCapacity_keeps_tuples(a, v, new_capacity, ok) ==
  LET a1 == [a EXCEPT !.m_capacity = new_capacity]
      r == IF v # nullview THEN reallocViewData(a1, v)
           ELSE Both([a1 EXCEPT !.m_data =
                        realloc(a1.m_data, a1.m_capacity * a1.m_num_components,
                                ok)], v)
  IN [a |-> r.a, view |-> r.view, at_realloc |-> a1]

\* Array::setCapacity of an array that may have a view: the capacity, then
\* the number of tuples when it no longer fits, then the reallocation, in the
\* view when there is one.  at_realloc is the array as the reallocation
\* finds it.
sidre_setCapacity(a, v, new_capacity, ok) ==
  IF AXOM_DEBUG /\ new_capacity < 0
  THEN [a |-> processAbort(a, "new_capacity >= 0"), view |-> v, at_realloc |-> a]
  ELSE
    LET a1 == [a EXCEPT !.m_capacity = new_capacity]
        r2 == IF a1.m_capacity < a1.m_num_tuples
              THEN sidre_updateNumTuples(a1, v, a1.m_capacity)
              ELSE Both(a1, v)
        r3 == IF v # nullview THEN reallocViewData(r2.a, r2.view)
              ELSE Both(setCapacity(a, new_capacity, ok), v)
    IN IF r2.a.abort_msg # ""
       THEN [a |-> r2.a, view |-> r2.view, at_realloc |-> r2.a]
       ELSE [a |-> r3.a, view |-> r3.view, at_realloc |-> r2.a]

\* The array members the base class constructor leaves before the body of a
\* sidre Array constructor runs.
BaseArray(num_tuples, num_components) ==
  [m_dims |-> <<>>, m_strides |-> <<>>, m_num_tuples |-> num_tuples,
   m_capacity |-> 0, m_num_components |-> num_components,
   m_resize_ratio |-> 4, m_is_external |-> FALSE, m_data |-> NullPtr,
   abort_msg |-> "", ctor_log |-> <<>>, dtor_log |-> <<>>]

\* Array::Array(view): the number of tuples and of components from the
\* view's shape, the capacity from the size of the view's buffer.
Array_from_view(v) ==
  LET a0 == BaseArray(0, 0)
  IN IF v = nullview THEN processAbort(a0, "Provided View cannot be null.")
     ELSE IF v.empty THEN processAbort(a0, "Provided View cannot be empty.")
     ELSE IF Len(v.shape) # 2
     THEN processAbort(a0, "view must have dimension 2.")
     ELSE
       LET a1 == [a0 EXCEPT !.m_num_tuples = getViewShape(v, 0),
                            !.m_num_components = getViewShape(v, 1)]
           buffer_size == getNumElements(v)
       IN IF buffer_size % a1.m_num_components # 0
          THEN processAbort(a1, "The buffer size is not a multiple of the number of components.")
          ELSE
            LET a2 == [a1 EXCEPT !.m_capacity =
                         buffer_size \div a1.m_num_components]
                a3 == [a2 EXCEPT !.m_data = v.buffer]
            IN IF a2.m_num_tuples > a2.m_capacity
               THEN processAbort(a2, "Number of tuples cannot be greater than the tuple capacity.")
               ELSE IF v.typeID # sidreTypeId
               THEN processAbort(a2, "View data type differs from this Array type.")
               ELSE IF a3.m_data = NullPtr /\ a3.m_capacity > 0
               THEN processAbort(a3, "View returned a null pointer when the capacity is greater than zero.")
               ELSE a3

\* Array::Array(view, num_tuples, num_components, capacity): an empty view is
\* populated with capacity tuples and described as the array's shape.
Array_into_view(v, num_tuples, num_components, capacity) ==
  LET a0 == BaseArray(num_tuples, num_components)
  IN IF v = nullview
     THEN Both(processAbort(a0, "Provided View cannot be null."), v)
     ELSE IF ~v.empty THEN Both(processAbort(a0, "View must be empty."), v)
     ELSE IF num_tuples < 0
     THEN Both(processAbort(a0, "Number of tuples cannot be negative."), v)
     ELSE IF num_components <= 0
     THEN Both(processAbort(a0, "Components per tuple must be greater than 0."), v)
     ELSE IF num_tuples > capacity
     THEN Both(processAbort(a0, "Number of tuples cannot be greater than the tuple capacity."), v)
     ELSE LET r == sidre_setCapacity(a0, v, capacity, TRUE)
          IN Both(r.a, r.view)

\* ------------------------------------------ the owning Array's interface
\* Array::size(): the number of elements, tuples times components.
size(a) == a.m_num_tuples * a.m_num_components

\* ArrayBase::shape(): the stored extents; the 1-D specialization has none
\* and synthesizes {size()}.
shape(a) == IF a.m_dims = <<>> THEN <<size(a)>> ELSE a.m_dims

\* ArrayBase::strides().
strides(a) == a.m_strides

\* ArrayBase::inBounds(idx).
inBounds(a, idx) == idx >= 0 /\ idx < size(a)

\* What data()[idx] may yield: the element when idx is inside the buffer;
\* outside it the read is undefined and may yield anything.
Deref(a, idx) ==
  IF idx >= 0 /\ idx < Len(a.m_data) THEN {a.m_data[idx + 1]}
  ELSE {Raw} \cup 0..(MaxExtent * MaxExtent)

\* Tuples needed to hold n elements.
TuplesFor(a, n) == (n + a.m_num_components - 1) \div a.m_num_components

\* Array::Array(extents, capacity): allocates `capacity` tuples and
\* default-constructs the live range [0, size).
Array_ctor(args, capacity, ratio) ==
  LET base == ArrayBase_ctor(args)
      a0 == [m_dims |-> base.m_dims, m_strides |-> base.m_strides,
             m_num_tuples |-> Head(args), m_capacity |-> 0,
             m_num_components |-> packProduct(Tail(args)),
             m_resize_ratio |-> ratio, m_is_external |-> FALSE,
             m_data |-> NullPtr, abort_msg |-> "",
             ctor_log |-> <<>>, dtor_log |-> <<>>]
      a1 == setCapacity(a0, capacity, TRUE)
  IN init(a1, 0, size(a1))

\* Array::resize(newSize): reallocates when newSize exceeds the capacity,
\* default-constructs the newly exposed range or destroys the excluded one,
\* then records the new leading extent.
Array_resize(a, new_num_tuples, ok) ==
  LET prev == a.m_num_tuples
      c == a.m_num_components
      a1 == IF new_num_tuples > a.m_capacity
            THEN dynamicRealloc(a, new_num_tuples, ok)
            ELSE a
      a2 == IF prev < new_num_tuples
            THEN init(a1, prev * c, new_num_tuples * c)
            ELSE destroy(a1, new_num_tuples * c, prev * c)
      a3 == updateNumTuples(a2, new_num_tuples)
  IN IF a1.abort_msg # "" THEN a1
     ELSE IF a3.abort_msg # "" \/ a3.m_dims = <<>> THEN a3
     ELSE LET d == [a3.m_dims EXCEPT ![1] = new_num_tuples]
          IN [a3 EXCEPT !.m_dims = d, !.m_strides = updateStrides(d, @)]

\* Array::append / push_back(value) on a one-component array.
Array_append(a, value, ok) ==
  LET new_size == a.m_num_tuples + 1
      a1 == IF new_size > a.m_capacity
            THEN dynamicRealloc(a, new_size, ok)
            ELSE a
  IN IF a1.abort_msg # "" THEN a1
     ELSE updateNumTuples(emplace(a1, a.m_num_tuples, value), new_size)

\* Copy-construction of values[0 .. n) into the slots [pos, pos + n).
RECURSIVE fill_range(_, _, _, _)
fill_range(a, pos, values, k) ==
  IF k < Len(values)
  THEN fill_range(emplace(a, pos + k, values[k + 1]), pos, values, k + 1)
  ELSE a

\* Array::insert(pos, n, values): reallocate if needed, shift the tail
\* [pos, size) right by n via move, copy-construct the values into the gap.
Array_insert(a, pos, n, values, ok) ==
  IF n = 0 THEN a
  ELSE
    LET old_size == size(a)
        new_num_tuples == TuplesFor(a, old_size + n)
        a1 == IF new_num_tuples > a.m_capacity
              THEN dynamicRealloc(a, new_num_tuples, ok)
              ELSE a
        a2 == [a1 EXCEPT !.m_data = move(@, pos, old_size, pos + n)]
        a3 == fill_range(a2, pos, values, 0)
    IN IF a1.abort_msg # "" THEN a1
       ELSE updateNumTuples(a3, new_num_tuples)

\* Array::reserve(capacity): grows the capacity, never lowers it; fatal
\* when the capacity of external data would have to grow.
Array_reserve(a, capacity, ok) ==
  IF capacity <= a.m_capacity THEN a
  ELSE IF a.m_is_external
  THEN processAbort(a, "Cannot change the capacity of external data.")
  ELSE setCapacity(a, capacity, ok)

\* Array::Array(data, num_tuples): wraps num_tuples elements the caller owns.
Array_external(values) ==
  [m_dims |-> <<>>, m_strides |-> <<>>, m_num_tuples |-> Len(values),
   m_capacity |-> Len(values), m_num_components |-> 1, m_resize_ratio |-> 4,
   m_is_external |-> TRUE, m_data |-> values, abort_msg |-> "",
   ctor_log |-> <<>>, dtor_log |-> <<>>]

\* Array::shrink(): the capacity becomes the number of tuples.
Array_shrink(a, ok) == setCapacity(a, a.m_num_tuples, ok)

\* Array::swap(other): the base's swap, then the Array's own members.  The
\* result is the pair <<this, other>> after the call.
Array_swap(a, other) ==
  LET b == ArrayBase_swap(a, other)
      own(x, y) == [x EXCEPT !.m_num_tuples = y.m_num_tuples,
                             !.m_capacity = y.m_capacity,
                             !.m_num_components = y.m_num_components,
                             !.m_resize_ratio = y.m_resize_ratio,
                             !.m_is_external = y.m_is_external,
                             !.m_data = y.m_data]
  IN <<own(b[1], other), own(b[2], a)>>

\* What ArrayBase::insert writes to std::cerr before processAbort().
ShapeDiagnostic ==
  "Cannot append a multidimensional array of incorrect shape."

\* Whether a trailing extent of other differs from the receiver's: the
\* std::equal of ArrayBase::insert, negated.
Mismatched(a, other) ==
  a.m_dims # <<>> /\ Tail(a.m_dims) # Tail(other.m_dims)

\* An insert without the shape check, whatever the build.
ArrayBase_insert_unchecked(a, pos, other, ok) ==
  IF a.m_dims = <<>>
  THEN Array_insert(a, pos, other.size, other.data, ok)
  ELSE
    LET a1 == [a EXCEPT !.m_dims[1] = @ + other.m_dims[1]]
        a2 == Array_insert(a1, pos, other.size, other.data, ok)
    IN IF a2.abort_msg # "" THEN a2
       ELSE [a2 EXCEPT !.m_strides = updateStrides(a2.m_dims, @)]

\* ArrayBase::insert(pos, other).  DIM > 1: the debug-only shape check, the
\* leading extent, the derived insert of other.size() elements, the strides.
\* DIM == 1: the derived insert alone.
ArrayBase_insert(a, pos, other, ok) ==
  IF a.m_dims = <<>>
  THEN Array_insert(a, pos, other.size, other.data, ok)
  ELSE IF AXOM_DEBUG /\ Mismatched(a, other)
  THEN processAbort(a, ShapeDiagnostic)
  ELSE
    LET a1 == [a EXCEPT !.m_dims[1] = @ + other.m_dims[1]]
        a2 == Array_insert(a1, pos, other.size, other.data, ok)
    IN IF a2.abort_msg # "" THEN a2
       ELSE [a2 EXCEPT !.m_strides = updateStrides(a2.m_dims, @)]

\* ------------------------------------- memory_management.hpp: ArrayView
\* An address is a natural number, nullptr the null one.  heap.cells maps the
\* address of each block the allocator has handed out to its slots.
nullptr == 0

\* Where the owning Array's buffer lies while views are followed.
OwnerAddr == 1

\* MemorySpace tags the views are instantiated with: the runtime-determined
\* one and a concrete one.
MemorySpaces == {"Dynamic", "Device"}

\* axom::detail::getAllocatorID<SPACE>(): one allocator per concrete space;
\* Dynamic resolves to the default allocator, the host's.
getAllocatorID(SPACE) == IF SPACE = "Device" THEN 1 ELSE 0

AllocatorIDs == {getAllocatorID(s) : s \in MemorySpaces}

\* Array::data(): the address of the buffer, null when there is none.
data(a) == IF a.m_data = NullPtr THEN nullptr ELSE OwnerAddr

\* detail::ArrayTraits<ArrayType>: true for the ArrayView specialization.
ArrayTraits(ArrayType) == [is_view |-> ArrayType = "ArrayView"]

\* ArrayBase::is_array_view.
is_array_view(ArrayType) == ArrayTraits(ArrayType).is_view

\* Deep const for every array type.
RealConstT_deep(ArrayType, T_const) == TRUE

\* ArrayBase::RealConstT: whether the reference a const-qualified container's
\* accessors return is to a const element.  T_const says T itself is const.
RealConstT(ArrayType, T_const) ==
  IF is_array_view(ArrayType) THEN T_const ELSE TRUE

\* The diagnostic of the allocator check in the converting constructors.
AllocatorDiagnostic ==
  "Input argument allocator does not match the explicitly provided memory space"

\* A view object: ArrayBase's extents and strides, the three members of
\* ArrayView and its template arguments SPACE and const-ness of T.
View(base, ptr, num_elements, allocator_id, SPACE, T_const) ==
  [m_dims |-> base.m_dims, m_strides |-> base.m_strides, m_data |-> ptr,
   m_num_elements |-> num_elements, m_allocator_id |-> allocator_id,
   SPACE |-> SPACE, T_const |-> T_const, abort_msg |-> ""]

\* ArrayView::ArrayView(T* data, Args... args), built without Umpire.
ArrayView_from_pointer(ptr, args, SPACE, T_const) ==
  View(ArrayBase_ctor(args), ptr, packProduct(args), getAllocatorID(SPACE),
       SPACE, T_const)

\* The same constructor taking the allocator of the source for the view's.
ArrayView_of_default_space(other, ptr, num_elements, allocator_id, SPACE, T_const) ==
  View(ArrayBase_copy(other), ptr, num_elements, getAllocatorID(SPACE),
       SPACE, T_const)

\* The converting constructor without its allocator check.
ArrayView_unchecked(other, ptr, num_elements, allocator_id, SPACE, T_const) ==
  View(ArrayBase_copy(other), ptr, num_elements, allocator_id, SPACE, T_const)

\* ArrayView::ArrayView(ArrayBase<T, DIM, OtherArrayType>& other) and its
\* const overload: other's extents and strides, other.data(), other.size()
\* and other.getAllocatorID(); a debug build aborts when SPACE is not Dynamic
\* and that allocator is not SPACE's.
ArrayView_from_array(other, ptr, num_elements, allocator_id, SPACE, T_const) ==
  LET v == View(ArrayBase_copy(other), ptr, num_elements, allocator_id,
                SPACE, T_const)
  IN IF AXOM_DEBUG /\ SPACE # "Dynamic"
          /\ v.m_allocator_id # getAllocatorID(SPACE)
     THEN processAbort(v, AllocatorDiagnostic)
     ELSE v

\* A destructor that hands the wrapped pointer to the allocator.
ArrayView_dtor_frees(v, h) ==
  [cells |-> [a \in DOMAIN h.cells \ {v.m_data} |-> h.cells[a]],
   released |-> Append(h.released, v.m_data)]

\* ArrayView has no destructor of its own: destroying a view releases nothing.
ArrayView_dtor(v, h) == h

\* ArrayView::size().
View_size(v) == v.m_num_elements

\* shape() and strides() of a view (ArrayBase, 1-D specialization included).
View_shape(v) == IF v.m_dims = <<>> THEN <<View_size(v)>> ELSE v.m_dims

\* data()[idx] = value through a pointer into the heap.
Store(h, ptr, idx, value) ==
  [h EXCEPT !.cells[ptr][idx + 1] = value]

\* data()[idx] read through a pointer into the heap.
Load(h, ptr, idx) == h.cells[ptr][idx + 1]

\* ------------------------- memory_management.hpp: alloc, free, realloc
\* The build without Umpire.  std::size_t is SizeBits wide and an element
\* takes sizeof_T bytes; both are scaled down so that a product that does not
\* fit is within reach.
SizeBits == 4

sizeof_T == 4

\* const std::size_t numbytes = n * sizeof( T ), in std::size_t arithmetic.
numbytes(n) == (n * sizeof_T) % (2 ^ SizeBits)

\* The element counts a caller passes: up to the first ones whose byte count
\* does not fit.
Requests == 0..((2 ^ SizeBits) \div sizeof_T + 1)

\* The memory spaces of this build, and the enumerator that ends the list.
HOST == 0

NUM_MEMORY_SPACES == 1

\* The whole elements a block of that many bytes has room for.
Slots(bytes) == bytes \div sizeof_T

\* The lowest address no live block has.
Fresh(h) ==
  CHOOSE a \in 1..(Cardinality(DOMAIN h.cells) + 1) :
    /\ a \notin DOMAIN h.cells
    /\ \A b \in 1..(a - 1) : b \in DOMAIN h.cells

\* The heap without the block at an address.
Without(h, ptr) == [a \in DOMAIN h.cells \ {ptr} |-> h.cells[a]]

\* std::malloc(bytes): a new block of uninitialised storage, or null when it
\* fails; for zero bytes either a null pointer or a block with no room.
std_malloc(h, bytes, ok) ==
  IF ok
  THEN [heap |-> [h EXCEPT !.cells =
                    (Fresh(h) :> [i \in 1..Slots(bytes) |-> Raw]) @@ h.cells],
        ptr |-> Fresh(h)]
  ELSE [heap |-> h, ptr |-> nullptr]

\* std::free(ptr): nothing for a null pointer, else the block is released.
std_free(h, ptr) ==
  IF ptr = nullptr THEN h
  ELSE [cells |-> Without(h, ptr), released |-> Append(h.released, ptr)]

\* std::realloc(ptr, bytes): malloc for a null pointer.  Otherwise, when it
\* succeeds, a block of the new size holding the old block's contents up to
\* the lesser size, in place or elsewhere (moved) with the old block
\* released; when it fails, null with the old block left as it is.  For
\* zero bytes the library may also release the block and return null.
std_realloc(h, ptr, bytes, ok, moved) ==
  IF ptr = nullptr THEN std_malloc(h, bytes, ok)
  ELSE IF ok
  THEN LET old == h.cells[ptr]
           new == [i \in 1..Slots(bytes) |->
                     IF i <= Len(old) THEN old[i] ELSE Raw]
           rest == IF moved THEN std_free(h, ptr) ELSE h
           at == IF moved THEN Fresh(h) ELSE ptr
       IN [heap |-> [rest EXCEPT !.cells = (at :> new) @@ Without(rest, ptr)],
           ptr |-> at]
  ELSE IF bytes = 0 /\ moved
  THEN [heap |-> std_free(h, ptr), ptr |-> nullptr]
  ELSE [heap |-> h, ptr |-> nullptr]

\* The assertion of axom::alloc.
SpaceDiagnostic == "pre: invalid memory space request"

\* axom::alloc<T>(n, spaceId): asserts the space is one of the build's, then
\* std::malloc(n * sizeof(T)).
axom_alloc(h, n, spaceId, ok) ==
  IF AXOM_DEBUG /\ ~(spaceId >= HOST /\ spaceId < NUM_MEMORY_SPACES)
  THEN [heap |-> h, ptr |-> nullptr, abort_msg |-> SpaceDiagnostic]
  ELSE LET r == std_malloc(h, numbytes(n), ok)
       IN [heap |-> r.heap, ptr |-> r.ptr, abort_msg |-> ""]

\* A free that leaves the caller's variable as it was.
axom_free_keeps(h, ptr) == [heap |-> std_free(h, ptr), ptr |-> ptr]

\* axom::free(T*& pointer): std::free( pointer ); pointer = nullptr.
axom_free(h, ptr) == [heap |-> std_free(h, ptr), ptr |-> nullptr]

\* axom::realloc<T>(pointer, n): n == 0 frees and returns null; otherwise
\* std::realloc(pointer, n * sizeof(T)).
axom_realloc(h, ptr, n, ok, moved) ==
  IF n = 0
  THEN [heap |-> axom_free(h, ptr).heap, ptr |-> nullptr]
  ELSE std_realloc(h, ptr, numbytes(n), ok, moved)

\* The heap after an operation took the array from a to b: slots written in
\* place stay in the block at the array's address; a reallocation releases
\* that block for a new one.
\* The result is the heap and the address of the array's block.
Backing(h, a, b, addr) ==
  IF b.m_capacity = a.m_capacity /\ b.m_data # NullPtr /\ addr # nullptr
  THEN [heap |-> [h EXCEPT !.cells[addr] = b.m_data], ptr |-> addr]
  ELSE LET h1 == std_free(h, addr)
       IN IF b.m_data = NullPtr THEN [heap |-> h1, ptr |-> nullptr]
          ELSE [heap |-> [h1 EXCEPT !.cells = (Fresh(h1) :> b.m_data) @@ h1.cells],
                ptr |-> Fresh(h1)]

\* The events of a destructor: the element destructors it ran, in order,
\* and the release of the block.
Destroyed(slots) == [k \in 1..Len(slots) |-> <<"~T", slots[k]>>]
Freed(addr) == <<<<"free", addr>>>>

\* A destructor that releases the block before it destroys the elements.
Array_dtor_frees_first(a, h, addr) ==
  LET d == destroy([a EXCEPT !.dtor_log = <<>>], 0, size(a))
  IN [heap |-> std_free(h, addr),
      events |-> Freed(addr) \o Destroyed(d.dtor_log)]

\* Array::~Array: the elements of [0, size) are destroyed, then the buffer
\* is freed unless the memory is external.
Array_dtor(a, h, addr) ==
  LET d == destroy([a EXCEPT !.dtor_log = <<>>], 0, size(a))
  IN IF a.m_is_external \/ a.m_data = NullPtr
     THEN [heap |-> h, events |-> Destroyed(d.dtor_log)]
     ELSE [heap |-> std_free(h, addr),
           events |-> Destroyed(d.dtor_log) \o Freed(addr)]

\* ------------------------- memory_management.hpp: the default memory space
\* enum MemorySpace in a build with CUDA and Umpire's device resources.
DEVICE == 1
DEVICE_CONSTANT == 2
NUM_MEMORY_SPACES_CUDA == 3
MemorySpaceIds == HOST..(NUM_MEMORY_SPACES_CUDA - 1)

\* A setDefaultMemorySpace that assigns the one variable of the process.
setDefaultMemorySpace_shared(s_mem, written, spaceId) ==
  [tu \in DOMAIN s_mem |-> spaceId]

\* setDefaultMemorySpace(spaceId): internal::s_mem_space = spaceId, where
\* s_mem_space is the copy of the translation unit whose definition of the
\* inline function runs (written).
setDefaultMemorySpace(s_mem, written, spaceId) ==
  [s_mem EXCEPT ![written] = spaceId]

\* The default argument spaceId = internal::s_mem_space of alloc, evaluated
\* where the call is written: the copy of the calling translation unit.
defaultSpaceId(s_mem, tu) == s_mem[tu]

\* axom::alloc<T>(n, spaceId) with Umpire: asserts the space is one of the
\* build's, then allocates from the allocator of that space.
umpire_alloc(h, n, spaceId, ok) ==
  IF AXOM_DEBUG /\ ~(spaceId >= HOST /\ spaceId < NUM_MEMORY_SPACES_CUDA)
  THEN [heap |-> h, ptr |-> nullptr, abort_msg |-> SpaceDiagnostic, space |-> spaceId]
  ELSE LET r == std_malloc(h, numbytes(n), ok)
       IN [heap |-> r.heap, ptr |-> r.ptr, abort_msg |-> "", space |-> spaceId]

\* ------------------------------- ArrayBase.hpp: ArrayOpsBase<T, true>
\* The host-staging implementations work through a scratch block on the host.
\* ::operator new(sizeof(T) * n): a block with room for n elements.
operator_new(h, n) ==
  [heap |-> [h EXCEPT !.cells = (Fresh(h) :> [i \in 1..n |-> Raw]) @@ h.cells],
   ptr |-> Fresh(h)]

\* ::operator delete(ptr): the block is released, no destructor runs.
operator_delete(h, ptr) == std_free(h, ptr)

\* axom::copy(dst + dst_off, src + src_off, n * sizeof(T)).
copy(dst, dst_off, src, src_off, n) ==
  [i \in 1..Len(dst) |->
     IF i - 1 >= dst_off /\ i - 1 < dst_off + n
     THEN src[i - dst_off + src_off]
     ELSE dst[i]]

\* axom::allocate<T>(n, allocatorID): a block with room for n elements.
allocate(h, n) == operator_new(h, n)

\* axom::deallocate(ptr): the block is released.
deallocate(h, ptr) == std_free(h, ptr)

\* What a staged call that could not get its scratch block leaves: nothing
\* changed, the exception of the allocation propagating.
Thrown(a, h) == [a |-> a, heap |-> h, threw |-> TRUE]

\* What a call that returned leaves.
Returned(a, h) == [a |-> a, heap |-> h, threw |-> FALSE]

\* ArrayOpsBase<T, true>::init: default-constructs end - begin elements in a
\* scratch block, copies the block to data + begin, deletes the block.
ArrayOpsBaseDevice_init(a, h, begin, end, ok) ==
  IF ~ok THEN Thrown(a, h)
  ELSE LET len == end - begin
           tmp == operator_new(h, len)
           built == init([m_data |-> tmp.heap.cells[tmp.ptr],
                          ctor_log |-> a.ctor_log], 0, len)
       IN Returned([a EXCEPT
                      !.m_data = copy(a.m_data, begin, built.m_data, 0, len),
                      !.ctor_log = built.ctor_log],
                   operator_delete(tmp.heap, tmp.ptr))

\* A staged fill that keeps its scratch block.
ArrayOpsBaseDevice_fill_leaks(a, h, n, value, CopyOnHost, ok) ==
  IF ~CopyOnHost
  THEN Returned([a EXCEPT !.m_data = [i \in 1..Len(a.m_data) |->
                                        IF i <= n THEN value ELSE a.m_data[i]]],
                h)
  ELSE IF ~ok THEN Thrown(a, h)
  ELSE LET tmp == operator_new(h, n)
           built == uninitialized_fill_n([m_data |-> tmp.heap.cells[tmp.ptr],
                                          ctor_log |-> a.ctor_log], 0, n, value)
       IN Returned([a EXCEPT
                      !.m_data = copy(a.m_data, 0, built.m_data, 0, n),
                      !.ctor_log = built.ctor_log],
                   tmp.heap)

\* ArrayOpsBase<T, true>::fill: for a T that is not trivially copyable, copy
\* constructions in a scratch block, copied to array and deleted; for a
\* trivially copyable T a kernel that assigns value to array[0..n).
ArrayOpsBaseDevice_fill(a, h, n, value, CopyOnHost, ok) ==
  IF ~CopyOnHost
  THEN Returned([a EXCEPT !.m_data = [i \in 1..Len(a.m_data) |->
                                        IF i <= n THEN value ELSE a.m_data[i]]],
                h)
  ELSE IF ~ok THEN Thrown(a, h)
  ELSE LET tmp == operator_new(h, n)
           built == uninitialized_fill_n([m_data |-> tmp.heap.cells[tmp.ptr],
                                          ctor_log |-> a.ctor_log], 0, n, value)
       IN Returned([a EXCEPT
                      !.m_data = copy(a.m_data, 0, built.m_data, 0, n),
                      !.ctor_log = built.ctor_log],
                   operator_delete(tmp.heap, tmp.ptr))

\* ArrayOpsBase<T, true>::destroy: when T has a destructor to run, the range
\* is copied to a scratch block, destroyed there, copied back, and the block
\* deleted.
ArrayOpsBaseDevice_destroy(a, h, begin, end, ok) ==
  IF is_trivially_destructible THEN Returned(a, h)
  ELSE IF ~ok THEN Thrown(a, h)
  ELSE LET n == end - begin
           tmp == operator_new(h, n)
           host == copy(tmp.heap.cells[tmp.ptr], 0, a.m_data, begin, n)
           dead == destroyLoop([m_data |-> host, dtor_log |-> <<>>], 0, n)
       IN Returned([a EXCEPT
                      !.m_data = copy(a.m_data, begin, dead.m_data, 0, n),
                      !.dtor_log = a.dtor_log \o
                                     [k \in 1..n |-> begin + dead.dtor_log[k]]],
                   operator_delete(tmp.heap, tmp.ptr))

\* ArrayOpsBase<T, true>::move: the source range is copied to a scratch block
\* got from axom::allocate, the block is copied to array + dst and handed to
\* axom::deallocate.
ArrayOpsBaseDevice_move(a, h, src_begin, src_end, dst, ok) ==
  IF ~ok THEN Thrown(a, h)
  ELSE LET nelems == src_end - src_begin
           tmp == allocate(h, nelems)
           tmp_buf == copy(tmp.heap.cells[tmp.ptr], 0, a.m_data, src_begin,
                           nelems)
       IN Returned([a EXCEPT !.m_data = copy(a.m_data, dst, tmp_buf, 0, nelems)],
                   deallocate(tmp.heap, tmp.ptr))

\* ArrayOps<T, SPACE>::init, fill, destroy and move with Base the staging
\* (onDevice) or the plain implementation; destroy and move return at once on
\* an empty range.
ArrayOps_init(onDevice, a, h, begin, end, ok) ==
  IF onDevice THEN ArrayOpsBaseDevice_init(a, h, begin, end, ok)
  ELSE Returned(init(a, begin, end), h)

ArrayOps_fill(onDevice, a, h, n, value, CopyOnHost, ok) ==
  IF onDevice THEN ArrayOpsBaseDevice_fill(a, h, n, value, CopyOnHost, ok)
  ELSE Returned(fill(a, n, value), h)

ArrayOps_destroy(onDevice, a, h, begin, end, ok) ==
  IF a.m_data = NullPtr \/ end <= begin THEN Returned(a, h)
  ELSE IF onDevice THEN ArrayOpsBaseDevice_destroy(a, h, begin, end, ok)
  ELSE Returned(ArrayOpsBase_destroy(a, begin, end), h)

ArrayOps_move(onDevice, a, h, src_begin, src_end, dst, ok) ==
  IF src_begin >= src_end THEN Returned(a, h)
  ELSE IF onDevice THEN ArrayOpsBaseDevice_move(a, h, src_begin, src_end, dst, ok)
  ELSE Returned([a EXCEPT !.m_data = ArrayOpsBase_move(a.m_data, src_begin,
                                                      src_end, dst)], h)

\* ------------------------------------------------------ sidre DataView
\* A DataView is the record of its members m_is_opaque, m_is_applied,
\* m_schema (a type and a number of elements) and m_data_buffer, which is
\* ATK_NULLPTR or the buffer: the number of views attached to it and the type
\* and number of elements it was allocated for.
EMPTY_T == "empty"
ATK_NULLPTR ==
  [null |-> TRUE, num_views |-> 0, type |-> EMPTY_T, numelems |-> 0,
   allocated |-> FALSE]
NoSchema == [type |-> EMPTY_T, numelems |-> 0]

\* DataView::isOpaque().
isOpaque(v) == v.m_is_opaque

\* An allocationIsValid that does not look at the views of the buffer.
allocationIsValid_shared(v) == ~isOpaque(v)

\* DataView::allocationIsValid.
allocationIsValid(v) ==
  ~isOpaque(v) /\ (v.m_data_buffer = ATK_NULLPTR \/
                   v.m_data_buffer.num_views = 1)

\* SLIC_ASSERT(cond): in a debug build a failed assertion ends the process.
\* The result of a DataView operation is the view and the diagnostic.
Asserted(cond, msg, v, rest) ==
  IF AXOM_DEBUG /\ ~cond THEN [view |-> v, abort_msg |-> msg] ELSE rest

Done(v) == [view |-> v, abort_msg |-> ""]

\* DataStore::createBuffer() and DataBuffer::attachView(this).
createBuffer ==
  [null |-> FALSE, num_views |-> 1, type |-> EMPTY_T, numelems |-> 0,
   allocated |-> FALSE]

\* DataBuffer::allocate(type, numelems) and DataBuffer::reallocate(numelems).
DataBuffer_allocate(b, type, numelems) ==
  [b EXCEPT !.type = type, !.numelems = numelems, !.allocated = TRUE]

DataBuffer_reallocate(b, numelems) ==
  [b EXCEPT !.numelems = numelems, !.allocated = TRUE]

\* DataView::declare(type, numelems).
declare(v, type, numelems) ==
  Asserted(~isOpaque(v), "Cannot call declare on an opaque view", v,
    Asserted(numelems >= 0, "Must declare number of elements >= 0", v,
      IF ~isOpaque(v) /\ numelems >= 0
      THEN Done([v EXCEPT !.m_schema = [type |-> type, numelems |-> numelems],
                          !.m_is_applied = FALSE])
      ELSE Done(v)))

\* DataView::declare(dtype): no check of the number of elements.
declare_dtype(v, type, numelems) ==
  Asserted(~isOpaque(v), "Cannot call declare on an opaque view", v,
    IF ~isOpaque(v)
    THEN Done([v EXCEPT !.m_schema = [type |-> type, numelems |-> numelems],
                        !.m_is_applied = FALSE])
    ELSE Done(v))

\* DataView::apply().
apply(v) ==
  Asserted(~isOpaque(v), "Cannot call apply() on an opaque view", v,
    IF ~isOpaque(v) THEN Done([v EXCEPT !.m_is_applied = TRUE]) ELSE Done(v))

\* DataView::allocate().
allocate0(v) ==
  Asserted(allocationIsValid(v), "allocationIsValid()", v,
    IF allocationIsValid(v)
    THEN LET v1 == IF v.m_data_buffer = ATK_NULLPTR
                   THEN [v EXCEPT !.m_data_buffer = createBuffer]
                   ELSE v
         IN IF v1.m_data_buffer.num_views = 1
            THEN apply([v1 EXCEPT !.m_data_buffer =
                          DataBuffer_allocate(@, v1.m_schema.type,
                                              v1.m_schema.numelems)])
            ELSE Done(v1)
    ELSE Done(v))

\* DataView::allocate(type, numelems).
allocate2(v, type, numelems) ==
  Asserted(allocationIsValid(v), "allocationIsValid()", v,
    Asserted(numelems >= 0, "Must allocate number of elements >= 0", v,
      IF allocationIsValid(v) /\ numelems >= 0
      THEN LET r1 == declare(v, type, numelems)
               r2 == allocate0(r1.view)
           IN apply(r2.view)
      ELSE Done(v)))

\* What reading m_data_buffer->... does when m_data_buffer is null.
NullDereference == "null pointer dereference"

\* m_data_buffer->reallocate(numelems); apply(): the tail of every reallocate.
\* With no buffer both statements read through a null pointer: the process
\* crashes, or runs on with nothing reallocated.
reallocateBuffer(v, numelems, crash) ==
  IF v.m_data_buffer = ATK_NULLPTR
  THEN IF crash THEN [view |-> v, abort_msg |-> NullDereference]
       ELSE apply(v)
  ELSE apply([v EXCEPT !.m_data_buffer = DataBuffer_reallocate(@, numelems)])

\* DataView::reallocate(numelems): the current type is kept.
reallocate1(v, numelems, crash) ==
  Asserted(allocationIsValid(v), "allocationIsValid()", v,
    Asserted(numelems >= 0, "Must re-allocate number of elements >= 0", v,
      IF allocationIsValid(v) /\ numelems >= 0
      THEN LET vtype == v.m_schema.type
               r1 == declare(v, vtype, numelems)
           IN reallocateBuffer(r1.view, numelems, crash)
      ELSE Done(v)))

\* DataView::reallocate(dtype): nothing unless the type is the view's.
reallocate2(v, type, numelems, crash) ==
  Asserted(allocationIsValid(v), "allocationIsValid()", v,
    IF allocationIsValid(v)
    THEN LET view_type == v.m_schema.type
         IN Asserted(type = view_type,
                     "Attempting to reallocate with a different type", v,
              IF type = view_type
              THEN LET r1 == declare_dtype(v, type, numelems)
                   IN reallocateBuffer(r1.view, numelems, crash)
              ELSE Done(v))
    ELSE Done(v))

\* ------------------------------------------------------------------ inputs
\* All extent tuples of length n over the set S.
RECURSIVE Tuples(_, _)
Tuples(S, n) ==
  IF n = 0 THEN {<<>>}
  ELSE {<<x>> \o t : x \in S, t \in Tuples(S, n - 1)}

\* The shapes of the array-likes handed to insert on the array a: any
\* leading extent up to MaxOther, the trailing extents of a or (a mismatch)
\* all ones.
OtherShapes(a) ==
  LET mine == IF a.m_dims = <<>> THEN <<>> ELSE Tail(a.m_dims)
      ones == [i \in 1..Len(mine) |-> 1]
  IN {<<k>> \o t : k \in 0..MaxOther, t \in {mine, ones}}

ArrayLike(s, d) ==
  [m_dims |-> s,
   m_strides |-> updateStrides(s, [i \in 1..Len(s) |-> Unset]),
   size |-> packProduct(s), data |-> d]

Others(a) ==
  UNION {{ArrayLike(s, d) : d \in [1..packProduct(s) -> Vals]} :
           s \in OtherShapes(a)}

\* Dimension of the modelled array.
DIM == IF m_dims = <<>> THEN 1 ELSE Len(m_dims)

\* ------------------------------------------------------------------ state
\* What the last operation was: its name, its arguments, the number of
\* tuples and the capacity it started from and, for an element access, the
\* multi-index, the flat offset and the value read; compiled is FALSE for a
\* statement the compiler rejects, threw is TRUE for a call left by an
\* exception, space_set is the argument of the latest setDefaultMemorySpace
\* call of the program, HOST before any, explicit tells an alloc call passed
\* a space.
NoOp ==
  [op |-> "construct", pos |-> 0, n |-> 0, value |-> 0, other |-> <<>>,
   copy |-> <<>>, realloc |-> FALSE, pre_num_tuples |-> 0,
   pre_capacity |-> 0, indices |-> <<>>, idx |-> 0, compiled |-> TRUE,
   threw |-> FALSE, space_set |-> HOST, explicit |-> FALSE]

\* No view exists and the allocator's blocks are not followed: the state of
\* these variables wherever only the owning Array is operated on.
EmptyHeap == [cells |-> <<>>, released |-> <<>>]

\* The translation units of a program that include memory_management.hpp.
TUs == {1, 2}

\* No sidre view, the registry as the program starts, no Array objects, no
\* DataView.
NoOtherObjects ==
  /\ m_view = <<>>
  /\ s_mem_space = [tu \in TUs |-> HOST]
  /\ arrays = <<>>
  /\ dataview = <<>>

NoViews ==
  /\ m_allocator_id = getAllocatorID("Dynamic")
  /\ views = <<>>
  /\ heap = EmptyHeap
  /\ caller_ptr = nullptr
  /\ NoOtherObjects

Op(name) ==
  [NoOp EXCEPT !.op = name, !.pre_num_tuples = m_num_tuples,
               !.pre_capacity = m_capacity]

\* Whether std::realloc succeeds matters only to a call that reaches it.
Outcomes(reallocates) == IF reallocates THEN BOOLEAN ELSE {TRUE}

\* The operations are followed on a running process whose array has the
\* size its shape states.  A release build lets an insert of mismatched
\* trailing extents through (a violated precondition); the state it leaves is
\* modelled and is not operated on further.
Usable == abort_msg = "" /\ packProduct(shape(Self)) = size(Self)

Commit(a) ==
  /\ m_dims' = a.m_dims
  /\ m_strides' = a.m_strides
  /\ m_num_tuples' = a.m_num_tuples
  /\ m_capacity' = a.m_capacity
  /\ m_num_components' = a.m_num_components
  /\ m_resize_ratio' = a.m_resize_ratio
  /\ m_is_external' = a.m_is_external
  /\ m_data' = a.m_data
  /\ abort_msg' = a.abort_msg
  /\ ctor_log' = a.ctor_log
  /\ dtor_log' = a.dtor_log
  /\ UNCHANGED <<AXOM_DEBUG, is_trivially_destructible, m_allocator_id,
                 views, heap, caller_ptr, other_objects>>

Init ==
  \E build \in Builds, t \in TrailingExtents,
     n \in 0..1, ratio \in ResizeRatios :
    LET a == Array_ctor(<<n>> \o t, n, ratio)
    IN /\ AXOM_DEBUG = build[1]
       /\ is_trivially_destructible = build[2]
       /\ m_dims = a.m_dims
       /\ m_strides = a.m_strides
       /\ m_num_tuples = a.m_num_tuples
       /\ m_capacity = a.m_capacity
       /\ m_num_components = a.m_num_components
       /\ m_resize_ratio = a.m_resize_ratio
       /\ m_is_external = a.m_is_external
       /\ m_data = a.m_data
       /\ abort_msg = a.abort_msg
       /\ ctor_log = a.ctor_log
       /\ dtor_log = a.dtor_log
       /\ last = NoOp
       /\ NoViews

\* resize(n)
Resize ==
  /\ Usable
  /\ \E n \in 0..(MaxElems \div m_num_components) :
       \E ok \in Outcomes(n > m_capacity /\ m_resize_ratio >= 2) :
         /\ Commit(Array_resize(Self, n, ok))
         /\ last' = [Op("resize") EXCEPT !.n = n,
                                         !.realloc = (n > m_capacity)]

\* append(v) / push_back(v)
AppendValue ==
  /\ Usable
  /\ m_num_components = 1
  /\ size(Self) + 1 <= MaxElems
  /\ \E v \in Vals :
       \E ok \in Outcomes(m_num_tuples + 1 > m_capacity
                            /\ m_resize_ratio >= 2) :
         /\ Commit(Array_append(Self, v, ok))
         /\ last' = [Op("append") EXCEPT
                       !.value = v, !.n = m_num_tuples + 1,
                       !.realloc = (m_num_tuples + 1 > m_capacity)]

\* insert(pos, other)
Insert ==
  /\ Usable
  /\ \E other \in Others(Self), pos \in 0..size(Self) :
       LET n == TuplesFor(Self, size(Self) + other.size)
           grows == /\ other.size > 0
                    /\ n > m_capacity
                    /\ ~(AXOM_DEBUG /\ Mismatched(Self, other))
       IN /\ size(Self) + other.size <= MaxElems
          /\ \E ok \in Outcomes(grows /\ m_resize_ratio >= 2) :
               /\ Commit(ArrayBase_insert(Self, pos, other, ok))
               /\ last' = [Op("insert") EXCEPT !.pos = pos, !.other = other,
                                               !.n = n, !.realloc = grows]

\* reserve(c)
Reserve ==
  /\ Usable
  /\ \E c \in 0..MaxReserve :
       \E ok \in Outcomes(c > m_capacity) :
         /\ Commit(Array_reserve(Self, c, ok))
         /\ last' = Op("reserve")

\* shrink()
Shrink ==
  /\ Usable
  /\ \E ok \in Outcomes(m_num_tuples > 0) :
       /\ Commit(Array_shrink(Self, ok))
       /\ last' = Op("shrink")

\* swap(other) with a freshly constructed array of the same dimension
Swap ==
  /\ Usable
  /\ \E n \in 0..1 :
       LET t == IF m_dims = <<>> THEN <<>> ELSE Tail(m_dims)
           other == Array_ctor(<<n>> \o t, n, m_resize_ratio)
           r == Array_swap(Self, other)
       IN /\ Commit(r[1])
          /\ last' = [Op("swap") EXCEPT !.other = ArrayBase_copy(r[2])]

\* the metadata copy made when an array-like is built from this one
CopyMetadata ==
  /\ Usable
  /\ DIM > 1
  /\ last.op # "copy"
  /\ Commit(Self)
  /\ last' = [Op("copy") EXCEPT !.copy = ArrayBase_copy(Self)]

Next ==
  \/ Resize
  \/ AppendValue
  \/ Insert
  \/ Reserve
  \/ Shrink
  \/ Swap
  \/ CopyMetadata

Spec == Init /\ [][Next]_vars

\* ------------------------------------------------------ element access
\* The shapes of the arrays that are indexed: DIM = 2 and DIM = 3.
IdxShapes ==
  Tuples(1..MaxExtent, 2) \cup Tuples(1..(MaxExtent - 1), 3)

\* A freshly constructed array of shape s whose caller has stored i at flat
\* index i, for every i: filled row-major with 0 .. size - 1.
Iota(s) ==
  LET a == Array_ctor(s, Head(s), 4)
  IN [a EXCEPT !.m_data = [i \in 1..size(a) |-> i - 1]]

InitIdx ==
  \E build \in Builds, s \in IdxShapes :
    LET a == Iota(s)
    IN /\ AXOM_DEBUG = build[1]
       /\ is_trivially_destructible = build[2]
       /\ m_dims = a.m_dims
       /\ m_strides = a.m_strides
       /\ m_num_tuples = a.m_num_tuples
       /\ m_capacity = a.m_capacity
       /\ m_num_components = a.m_num_components
       /\ m_resize_ratio = a.m_resize_ratio
       /\ m_is_external = a.m_is_external
       /\ m_data = a.m_data
       /\ abort_msg = ""
       /\ ctor_log = <<>>
       /\ dtor_log = <<>>
       /\ last = NoOp
       /\ NoViews

\* The read at flat offset idx that both accessors end with:
\* assert(inBounds(idx)), active in a debug build, then data()[idx].
Access(name, indices, idx) ==
  /\ UNCHANGED <<AXOM_DEBUG, is_trivially_destructible, m_dims, m_strides,
                 m_num_tuples, m_capacity, m_num_components, m_resize_ratio,
                 m_is_external, m_data, ctor_log, dtor_log, m_allocator_id,
                 views, heap, caller_ptr, other_objects>>
  /\ IF AXOM_DEBUG /\ ~inBounds(Self, idx)
     THEN /\ abort_msg' = "inBounds(idx)"
          /\ last' = [Op(name) EXCEPT !.indices = indices, !.idx = idx,
                                      !.value = Raw]
     ELSE /\ abort_msg' = abort_msg
          /\ \E v \in Deref(Self, idx) :
               last' = [Op(name) EXCEPT !.indices = indices, !.idx = idx,
                                        !.value = v]

\* arr(i0, ..., i_{DIM-1}), each index from 0 up to one past its extent
CallParen ==
  /\ abort_msg = ""
  /\ \E indices \in Tuples(0..MaxExtent, DIM) :
       /\ \A k \in 1..DIM : indices[k] <= m_dims[k]
       /\ Access("operator()", indices, flatIndex(Self, indices))

\* arr[idx], idx from 0 up to one past the size
CallBracket ==
  /\ abort_msg = ""
  /\ \E idx \in 0..size(Self) : Access("operator[]", <<>>, idx)

NextIdx ==
  \/ CallParen
  \/ CallBracket

SpecIdx == InitIdx /\ [][NextIdx]_vars

\* ------------------------------------------------------------- views
\* Views over one owning Array whose shape stays as constructed: they are
\* made from the array, from another view, from the array's pointer and
\* extents, or by copy; elements are written and read through the views and
\* through the array; views are iterated over and destroyed.
MaxViews == 2

ViewTuples == {1}

InitView ==
  \E build \in Builds, t \in TrailingExtents, n \in ViewTuples,
     id \in AllocatorIDs :
    LET a == Array_ctor(<<n>> \o t, n, 4)
    IN /\ AXOM_DEBUG = build[1]
       /\ is_trivially_destructible = build[2]
       /\ m_dims = a.m_dims
       /\ m_strides = a.m_strides
       /\ m_num_tuples = a.m_num_tuples
       /\ m_capacity = a.m_capacity
       /\ m_num_components = a.m_num_components
       /\ m_resize_ratio = a.m_resize_ratio
       /\ m_is_external = a.m_is_external
       /\ m_data = a.m_data
       /\ abort_msg = ""
       /\ ctor_log = <<>>
       /\ dtor_log = <<>>
       /\ last = NoOp
       /\ m_allocator_id = id
       /\ views = <<>>
       /\ heap = [cells |-> (OwnerAddr :> a.m_data), released |-> <<>>]
       /\ caller_ptr = nullptr
       /\ NoOtherObjects

\* What no view operation and no element access assigns.
OwnerFrame ==
  UNCHANGED <<AXOM_DEBUG, is_trivially_destructible, m_dims, m_strides,
              m_num_tuples, m_capacity, m_num_components, m_resize_ratio,
              m_is_external, ctor_log, dtor_log, m_allocator_id,
              caller_ptr, other_objects>>

\* The array's slots are the block at its address.
OwnerSlots(h) ==
  IF data(Self) \in DOMAIN h.cells THEN h.cells[data(Self)] ELSE m_data

\* A constructed view joins the live ones, unless its constructor aborted.
Construct(name, k, v) ==
  /\ abort_msg' = v.abort_msg
  /\ views' = IF v.abort_msg = "" THEN Append(views, v) ELSE views
  /\ last' = [Op(name) EXCEPT
                !.n = k, !.other = IF v.abort_msg = "" THEN <<>> ELSE v]
  /\ UNCHANGED <<m_data, heap>>
  /\ OwnerFrame

Remove(seq, k) == [j \in 1..(Len(seq) - 1) |-> IF j < k THEN seq[j] ELSE seq[j + 1]]

\* ArrayView<T, DIM, SPACE> view(arr) and ArrayView<const T, DIM, SPACE>
\* view(const arr)
ViewFromArray ==
  /\ abort_msg = "" /\ Len(views) < MaxViews
  /\ \E SPACE \in MemorySpaces, T_const \in BOOLEAN :
       Construct("view_from_array", 0,
                 ArrayView_from_array(Self, data(Self), size(Self),
                                      m_allocator_id, SPACE, T_const))

\* a view made from another view, the array-like being views[k]
ViewFromView ==
  /\ abort_msg = "" /\ Len(views) < MaxViews
  /\ \E k \in 1..Len(views), SPACE \in MemorySpaces :
       \E T_const \in {views[k].T_const, TRUE} :
         Construct("view_from_view", k,
                   ArrayView_from_array(views[k], views[k].m_data,
                                        View_size(views[k]),
                                        views[k].m_allocator_id, SPACE,
                                        T_const))

\* ArrayView<T, DIM, SPACE> view(arr.data(), extents...)
ViewFromPointer ==
  /\ abort_msg = "" /\ Len(views) < MaxViews
  /\ \E SPACE \in MemorySpaces :
       Construct("view_from_pointer", 0,
                 ArrayView_from_pointer(data(Self), shape(Self), SPACE, FALSE))

\* the implicit copy constructor: member by member
ViewCopy ==
  /\ abort_msg = "" /\ Len(views) < MaxViews
  /\ \E k \in 1..Len(views) : Construct("view_copy", 0, views[k])

\* view[idx] = value through a view of non-const T
ViewWrite ==
  /\ abort_msg = ""
  /\ \E k \in 1..Len(views), value \in Vals :
       \E idx \in 0..(View_size(views[k]) - 1) :
         /\ ~views[k].T_const
         /\ views[k].m_data \in DOMAIN heap.cells
         /\ heap' = Store(heap, views[k].m_data, idx, value)
         /\ m_data' = OwnerSlots(heap')
         /\ last' = [Op("view_write") EXCEPT !.idx = idx, !.value = value]
         /\ UNCHANGED <<abort_msg, views>>
         /\ OwnerFrame

\* const ArrayView<T, DIM, SPACE>& cv = views[k]; cv[idx] = value: the const
\* accessor returns RealConstT&, and assigning through a reference to const
\* does not compile.
ConstViewWrite ==
  /\ abort_msg = ""
  /\ \E k \in 1..Len(views), value \in Vals :
       \E idx \in 0..(View_size(views[k]) - 1) :
         LET compiled == ~RealConstT("ArrayView", views[k].T_const)
         IN /\ views[k].m_data \in DOMAIN heap.cells
            /\ heap' = IF compiled
                       THEN Store(heap, views[k].m_data, idx, value)
                       ELSE heap
            /\ m_data' = OwnerSlots(heap')
            /\ last' = [Op("const_view_write") EXCEPT
                          !.n = k, !.idx = idx, !.value = value,
                          !.compiled = compiled]
            /\ UNCHANGED <<abort_msg, views>>
            /\ OwnerFrame

\* const Array<T, DIM>& carr = arr; carr[idx] = value
ConstArrayWrite ==
  /\ abort_msg = ""
  /\ \E value \in Vals, idx \in 0..(size(Self) - 1) :
       LET compiled == ~RealConstT("Array", FALSE)
       IN /\ data(Self) \in DOMAIN heap.cells
          /\ heap' = IF compiled THEN Store(heap, data(Self), idx, value)
                     ELSE heap
          /\ m_data' = OwnerSlots(heap')
          /\ last' = [Op("const_array_write") EXCEPT
                        !.idx = idx, !.value = value, !.compiled = compiled]
          /\ UNCHANGED <<abort_msg, views>>
          /\ OwnerFrame

\* value = view[idx]
ViewRead ==
  /\ abort_msg = ""
  /\ \E k \in 1..Len(views) :
       \E idx \in 0..(View_size(views[k]) - 1) :
         /\ views[k].m_data \in DOMAIN heap.cells
         /\ last' = [Op("view_read") EXCEPT
                       !.idx = idx,
                       !.value = Load(heap, views[k].m_data, idx)]
         /\ UNCHANGED <<abort_msg, views, m_data, heap>>
         /\ OwnerFrame

\* arr[idx] = value through the owning Array
OwnerWrite ==
  /\ abort_msg = ""
  /\ \E value \in Vals, idx \in 0..(size(Self) - 1) :
       /\ data(Self) \in DOMAIN heap.cells
       /\ heap' = Store(heap, data(Self), idx, value)
       /\ m_data' = OwnerSlots(heap')
       /\ last' = [Op("owner_write") EXCEPT !.idx = idx, !.value = value]
       /\ UNCHANGED <<abort_msg, views>>
       /\ OwnerFrame

\* value = arr[idx]
OwnerRead ==
  /\ abort_msg = ""
  /\ \E idx \in 0..(size(Self) - 1) :
       /\ data(Self) \in DOMAIN heap.cells
       /\ last' = [Op("owner_read") EXCEPT
                     !.idx = idx, !.value = Load(heap, data(Self), idx)]
       /\ UNCHANGED <<abort_msg, views, m_data, heap>>
       /\ OwnerFrame

\* for(auto& x : view): begin() and end() assert m_data != nullptr, then the
\* elements are visited in order
ViewIterate ==
  /\ abort_msg = ""
  /\ \E k \in 1..Len(views) :
       /\ views[k].m_data \in DOMAIN heap.cells
       /\ last' = [Op("view_iterate") EXCEPT
                     !.copy = [j \in 1..View_size(views[k]) |->
                                 Load(heap, views[k].m_data, j - 1)]]
       /\ UNCHANGED <<abort_msg, views, m_data, heap>>
       /\ OwnerFrame

\* views[k] goes out of scope
ViewDestroy ==
  /\ abort_msg = ""
  /\ \E k \in 1..Len(views) :
       /\ heap' = ArrayView_dtor(views[k], heap)
       /\ views' = Remove(views, k)
       /\ last' = [Op("view_destroy") EXCEPT !.pos = views[k].m_data]
       /\ UNCHANGED <<abort_msg, m_data>>
       /\ OwnerFrame

NextView ==
  \/ ViewFromArray
  \/ ViewFromView
  \/ ViewFromPointer
  \/ ViewCopy
  \/ ViewWrite
  \/ ConstViewWrite
  \/ ConstArrayWrite
  \/ ViewRead
  \/ OwnerWrite
  \/ OwnerRead
  \/ ViewIterate
  \/ ViewDestroy

SpecView == InitView /\ [][NextView]_vars

\* --------------------------------------------------- alloc/free/realloc
\* No Array object is operated on: a buffer is handled through a bare
\* pointer, and the members of the Array keep the values given here.
NoArray ==
  /\ m_dims = <<>>
  /\ m_strides = <<>>
  /\ m_num_tuples = 0
  /\ m_num_components = 1
  /\ m_resize_ratio = 4
  /\ m_is_external = FALSE
  /\ abort_msg = ""
  /\ ctor_log = <<>>
  /\ dtor_log = <<>>

\* A caller with one pointer variable: it allocates when the variable is
\* null, stores elements, reallocates into the same variable and frees, in
\* any order.  MaxReleased caps the record of released blocks, and a caller
\* that lost a block (by assigning the null result of a failed realloc) asks
\* for no further one.
MaxReleased == 2

Leaked == DOMAIN heap.cells \ {caller_ptr} # {}

InitMem ==
  \E build \in Builds :
    /\ AXOM_DEBUG = build[1]
    /\ is_trivially_destructible = build[2]
    /\ NoArray
    /\ m_capacity = 0
    /\ m_data = NullPtr
    /\ last = NoOp
    /\ NoViews

\* What the allocation functions do not assign.
MemFrame ==
  UNCHANGED <<AXOM_DEBUG, is_trivially_destructible, m_dims, m_strides,
              m_num_tuples, m_capacity, m_num_components, m_resize_ratio,
              m_is_external, m_data, ctor_log, dtor_log, m_allocator_id,
              views, other_objects>>

\* The slots of the block the caller's variable points to.
Pointee == IF caller_ptr \in DOMAIN heap.cells THEN heap.cells[caller_ptr]
           ELSE <<>>

\* ptr = axom::alloc<T>(n, spaceId)
MemAlloc ==
  /\ abort_msg = "" /\ caller_ptr = nullptr
  /\ ~Leaked
  /\ \E n \in Requests, spaceId \in {HOST, NUM_MEMORY_SPACES}, ok \in BOOLEAN :
       LET r == axom_alloc(heap, n, spaceId, ok)
       IN /\ heap' = r.heap
          /\ caller_ptr' = r.ptr
          /\ abort_msg' = r.abort_msg
          /\ last' = [Op("alloc") EXCEPT !.n = n, !.pos = spaceId]
          /\ MemFrame

\* ptr[idx] = value, inside the block
MemWrite ==
  /\ abort_msg = "" /\ caller_ptr \in DOMAIN heap.cells
  /\ \E idx \in 0..(Len(Pointee) - 1), value \in Vals :
       /\ heap' = Store(heap, caller_ptr, idx, value)
       /\ last' = [Op("write") EXCEPT !.idx = idx, !.value = value]
       /\ UNCHANGED <<caller_ptr, abort_msg>>
       /\ MemFrame

\* axom::free(ptr)
MemFree ==
  /\ abort_msg = "" /\ Len(heap.released) < MaxReleased
  /\ LET r == axom_free(heap, caller_ptr)
     IN /\ heap' = r.heap
        /\ caller_ptr' = r.ptr
        /\ last' = [Op("free") EXCEPT !.pos = caller_ptr]
        /\ UNCHANGED abort_msg
        /\ MemFrame

\* ptr = axom::realloc(ptr, n)
MemRealloc ==
  /\ abort_msg = "" /\ Len(heap.released) < MaxReleased
  /\ ~Leaked
  /\ \E n \in Requests, ok \in BOOLEAN, moved \in BOOLEAN :
       LET r == axom_realloc(heap, caller_ptr, n, ok, moved)
       IN /\ heap' = r.heap
          /\ caller_ptr' = r.ptr
          /\ last' = [Op("realloc") EXCEPT !.n = n, !.pos = caller_ptr,
                                           !.copy = Pointee]
          /\ UNCHANGED abort_msg
          /\ MemFrame

NextMem ==
  \/ MemAlloc
  \/ MemWrite
  \/ MemFree
  \/ MemRealloc

SpecMem == InitMem /\ [][NextMem]_vars

\* ------------------------------------------------ element lifecycle
\* The ArrayOps functions called on a raw buffer of up to MaxSlots slots that
\* starts uninitialised.  A caller constructs over a slot that holds no object
\* (or whose type needs no destructor) and destroys ranges of live elements.
MaxSlots == 3

InitOps ==
  \E build \in Builds, capacity \in 1..MaxSlots :
    /\ AXOM_DEBUG = build[1]
    /\ is_trivially_destructible = build[2]
    /\ NoArray
    /\ m_capacity = capacity
    /\ m_data = [i \in 1..capacity |-> Raw]
    /\ last = NoOp
    /\ NoViews

\* The slots of [begin, end) hold live elements.
Live(begin, end) == \A i \in begin..(end - 1) : m_data[i + 1] # Raw

\* The slots of [begin, end) can be constructed over.
Constructible(begin, end) ==
  \A i \in begin..(end - 1) : m_data[i + 1] = Raw \/ is_trivially_destructible

\* ArrayOps::init(array, begin, end, allocId)
OpsInit ==
  \E begin \in 0..Len(m_data), end \in 0..Len(m_data) :
    /\ begin <= end /\ Constructible(begin, end)
    /\ Commit(init(Self, begin, end))
    /\ last' = [Op("init") EXCEPT !.pos = begin, !.n = end]

\* ArrayOps::fill(array, n, allocId, value)
OpsFill ==
  \E n \in 0..Len(m_data), value \in Vals :
    /\ Constructible(0, n)
    /\ Commit(fill(Self, n, value))
    /\ last' = [Op("fill") EXCEPT !.n = n, !.value = value]

\* ArrayOps::emplace(array, i, allocId, value)
OpsEmplace ==
  \E i \in 0..(Len(m_data) - 1), value \in Vals :
    /\ Constructible(i, i + 1)
    /\ Commit(emplace(Self, i, value))
    /\ last' = [Op("emplace") EXCEPT !.pos = i, !.value = value]

\* ArrayOps::destroy(array, begin, end, allocId)
OpsDestroy ==
  \E begin \in 0..Len(m_data), end \in 0..Len(m_data) :
    /\ Live(begin, end)
    /\ Commit(destroy(Self, begin, end))
    /\ last' = [Op("destroy") EXCEPT !.pos = begin, !.n = end]

NextOps ==
  \/ OpsInit
  \/ OpsFill
  \/ OpsEmplace
  \/ OpsDestroy

SpecOps == InitOps /\ [][NextOps]_vars

\* ------------------------------------------------- staged element operations
\* The element operations on one buffer that lives either in host memory or,
\* by its allocator ID, in device memory, where every operation goes through
\* the host-staging implementation and its scratch allocation can fail.
InitStage ==
  \E build \in Builds, capacity \in 1..MaxSlots, id \in AllocatorIDs :
    /\ AXOM_DEBUG = build[1]
    /\ is_trivially_destructible = build[2]
    /\ NoArray
    /\ m_capacity = capacity
    /\ m_data = [i \in 1..capacity |-> Raw]
    /\ last = NoOp
    /\ m_allocator_id = id
    /\ views = <<>>
    /\ heap = EmptyHeap
    /\ caller_ptr = nullptr
    /\ NoOtherObjects

\* ArrayOps<T, MemorySpace::Dynamic>: the operations of a buffer whose
\* allocator ID is the device's are the staging ones.
IsDevice == m_allocator_id = getAllocatorID("Device")

StageCommit(r) ==
  /\ m_data' = r.a.m_data
  /\ ctor_log' = r.a.ctor_log
  /\ dtor_log' = r.a.dtor_log
  /\ heap' = r.heap
  /\ UNCHANGED <<AXOM_DEBUG, is_trivially_destructible, m_dims, m_strides,
                 m_num_tuples, m_capacity, m_num_components, m_resize_ratio,
                 m_is_external, abort_msg, m_allocator_id, views, caller_ptr,
                 other_objects>>

\* Whether the scratch allocation of a call succeeds; a staged call is one
\* more released block on the heap.
Staging(ok) ==
  /\ ~IsDevice => ok
  /\ IsDevice => Len(heap.released) < MaxReleased

\* ArrayOps::init(array, begin, end, allocId)
StageInit ==
  \E ok \in BOOLEAN, begin \in 0..Len(m_data), end \in 0..Len(m_data) :
    /\ Staging(ok)
    /\ begin <= end /\ Constructible(begin, end)
    /\ LET r == ArrayOps_init(IsDevice, Self, heap, begin, end, ok)
       IN /\ StageCommit(r)
          /\ last' = [Op("init") EXCEPT !.threw = r.threw]

\* ArrayOps::fill(array, n, allocId, value)
StageFill ==
  \E ok \in BOOLEAN, CopyOnHost \in BOOLEAN,
     n \in 0..Len(m_data), value \in Vals :
    /\ Staging(ok)
    /\ Constructible(0, n)
    /\ LET r == ArrayOps_fill(IsDevice, Self, heap, n, value, CopyOnHost, ok)
       IN /\ StageCommit(r)
          /\ last' = [Op("fill") EXCEPT !.threw = r.threw]

\* ArrayOps::emplace(array, i, allocId, value) on a host buffer.
StageEmplace == ~IsDevice /\ OpsEmplace

\* ArrayOps::destroy(array, begin, end, allocId)
StageDestroy ==
  \E ok \in BOOLEAN, begin \in 0..Len(m_data), end \in 0..Len(m_data) :
    /\ Staging(ok)
    /\ begin <= end /\ Live(begin, end)
    /\ LET r == ArrayOps_destroy(IsDevice, Self, heap, begin, end, ok)
       IN /\ StageCommit(r)
          /\ last' = [Op("destroy") EXCEPT !.threw = r.threw]

\* ArrayOps::move(array, src_begin, src_end, dst, allocId): the source range
\* and the destination range both lie in the buffer.
StageMove ==
  \E ok \in BOOLEAN, src_begin \in 0..Len(m_data),
     src_end \in 0..Len(m_data), dst \in 0..Len(m_data) :
    /\ Staging(ok)
    /\ src_begin <= src_end
    /\ dst + (src_end - src_begin) <= Len(m_data)
    /\ LET r == ArrayOps_move(IsDevice, Self, heap, src_begin, src_end, dst, ok)
       IN /\ StageCommit(r)
          /\ last' = [Op("move") EXCEPT !.pos = src_begin, !.n = src_end,
                                        !.idx = dst, !.threw = r.threw]

NextStage ==
  \/ StageInit
  \/ StageFill
  \/ StageEmplace
  \/ StageDestroy
  \/ StageMove

SpecStage == InitStage /\ [][NextStage]_vars

\* ------------------------------------------------------ sidre Array
\* A sidre Array built into an empty view, or an array of the base class with
\* no view, whose capacity is set, whose number of tuples is changed within
\* the capacity, and which is destroyed and built again from its view.
MaxTuples == 2
MaxCapacity == 3
Components == {1, 2}

InitSidre ==
  \E build \in Builds, backed \in BOOLEAN, num_tuples \in 0..MaxTuples,
     num_components \in Components, capacity \in 0..MaxCapacity :
    LET r == IF backed
             THEN Array_into_view(EmptyView, num_tuples, num_components, capacity)
             ELSE Both([BaseArray(num_tuples, num_components) EXCEPT
                          !.m_capacity = capacity,
                          !.m_data = [i \in 1..(capacity * num_components) |-> Raw]],
                       nullview)
    IN /\ num_tuples <= capacity
       /\ AXOM_DEBUG = build[1]
       /\ is_trivially_destructible = TRUE
       /\ m_dims = r.a.m_dims
       /\ m_strides = r.a.m_strides
       /\ m_num_tuples = r.a.m_num_tuples
       /\ m_capacity = r.a.m_capacity
       /\ m_num_components = r.a.m_num_components
       /\ m_resize_ratio = r.a.m_resize_ratio
       /\ m_is_external = r.a.m_is_external
       /\ m_data = r.a.m_data
       /\ abort_msg = ""
       /\ ctor_log = <<>>
       /\ dtor_log = <<>>
       /\ last = NoOp
       /\ m_allocator_id = getAllocatorID("Dynamic")
       /\ views = <<>>
       /\ heap = EmptyHeap
       /\ caller_ptr = nullptr
       /\ m_view = r.view
       /\ s_mem_space = [tu \in TUs |-> HOST]
       /\ arrays = <<>>
       /\ dataview = <<>>

SidreCommit(a, v) ==
  /\ m_dims' = a.m_dims
  /\ m_strides' = a.m_strides
  /\ m_num_tuples' = a.m_num_tuples
  /\ m_capacity' = a.m_capacity
  /\ m_num_components' = a.m_num_components
  /\ m_resize_ratio' = a.m_resize_ratio
  /\ m_is_external' = a.m_is_external
  /\ m_data' = a.m_data
  /\ abort_msg' = a.abort_msg
  /\ ctor_log' = a.ctor_log
  /\ dtor_log' = a.dtor_log
  /\ m_view' = v
  /\ UNCHANGED <<AXOM_DEBUG, is_trivially_destructible, m_allocator_id,
                 views, heap, caller_ptr, s_mem_space, arrays, dataview>>

\* Array::setCapacity(new_capacity); last.pos and last.idx are the number of
\* tuples and the capacity the reallocation found.
SidreSetCapacity ==
  \E new_capacity \in 0..MaxCapacity, ok \in BOOLEAN :
    /\ abort_msg = ""
    /\ m_view # nullview => ok
    /\ LET r == sidre_setCapacity(Self, m_view, new_capacity, ok)
       IN /\ SidreCommit(r.a, r.view)
          /\ last' = [Op("setCapacity") EXCEPT
                        !.n = new_capacity,
                        !.pos = r.at_realloc.m_num_tuples,
                        !.idx = r.at_realloc.m_capacity]

\* Array::updateNumTuples(new_num_tuples), as resize calls it once the
\* capacity suffices.
SidreUpdateNumTuples ==
  \E new_num_tuples \in 0..MaxCapacity :
    /\ abort_msg = ""
    /\ new_num_tuples <= m_capacity
    /\ LET r == sidre_updateNumTuples(Self, m_view, new_num_tuples)
       IN /\ SidreCommit(r.a, r.view)
          /\ last' = [Op("updateNumTuples") EXCEPT !.n = new_num_tuples]

\* The array is destroyed, which leaves the view and its buffer as they are,
\* and an array is built from the view: Array::Array(view).
SidreFromView ==
  /\ abort_msg = ""
  /\ m_view # nullview
  /\ SidreCommit(Array_from_view(m_view), m_view)
  /\ last' = Op("from_view")

NextSidre ==
  \/ SidreSetCapacity
  \/ SidreUpdateNumTuples
  \/ SidreFromView

SpecSidre == InitSidre /\ [][NextSidre]_vars

\* ------------------------------------------------- default memory space
\* A program of two translation units that set the default memory space,
\* allocate with and without an explicit space, and free.
InitSpace ==
  \E build \in Builds :
    /\ AXOM_DEBUG = build[1]
    /\ is_trivially_destructible = build[2]
    /\ NoArray
    /\ m_capacity = 0
    /\ m_data = NullPtr
    /\ last = NoOp
    /\ NoViews

SpaceFrame ==
  UNCHANGED <<AXOM_DEBUG, is_trivially_destructible, m_dims, m_strides,
              m_num_tuples, m_capacity, m_num_components, m_resize_ratio,
              m_is_external, m_data, abort_msg, ctor_log, dtor_log,
              m_allocator_id, views, m_view, arrays, dataview>>

\* setDefaultMemorySpace(spaceId), called in translation unit tu.  An inline
\* function that names a static variable of a header has one definition per
\* translation unit; the call runs the caller's definition when it is
\* inlined and otherwise the one the linker kept.
SetDefault ==
  \E tu \in TUs, written \in TUs, spaceId \in MemorySpaceIds :
    /\ s_mem_space' = setDefaultMemorySpace(s_mem_space, written, spaceId)
    /\ last' = [Op("setDefaultMemorySpace") EXCEPT
                  !.pos = spaceId, !.idx = tu, !.space_set = spaceId]
    /\ UNCHANGED <<heap, caller_ptr>>
    /\ SpaceFrame

\* ptr = axom::alloc<T>(1) or axom::alloc<T>(1, spaceId), called in
\* translation unit tu; last.pos is the space the block was allocated in,
\* last.copy the default spaces before the call.
SpaceAlloc ==
  /\ caller_ptr = nullptr
  /\ Len(heap.released) < MaxReleased
  /\ \E tu \in TUs, explicit \in BOOLEAN, given \in MemorySpaceIds :
       LET spaceId == IF explicit THEN given
                      ELSE defaultSpaceId(s_mem_space, tu)
           r == umpire_alloc(heap, 1, spaceId, TRUE)
       IN /\ ~explicit => given = HOST
          /\ heap' = r.heap
          /\ caller_ptr' = r.ptr
          /\ last' = [Op("alloc") EXCEPT
                        !.pos = r.space, !.idx = tu, !.n = given,
                        !.explicit = explicit, !.copy = s_mem_space,
                        !.space_set = last.space_set]
          /\ UNCHANGED s_mem_space
          /\ SpaceFrame

\* axom::free(ptr)
SpaceFree ==
  /\ caller_ptr # nullptr
  /\ LET r == axom_free(heap, caller_ptr)
     IN /\ heap' = r.heap
        /\ caller_ptr' = r.ptr
        /\ last' = [Op("free") EXCEPT !.space_set = last.space_set]
        /\ UNCHANGED s_mem_space
        /\ SpaceFrame

NextSpace ==
  \/ SetDefault
  \/ SpaceAlloc
  \/ SpaceFree

SpecSpace == InitSpace /\ [][NextSpace]_vars

\* ------------------------------------------------------------ DataView
\* One DataView, created opaque, with no buffer, or attached to a buffer that
\* one other view may attach to and detach from; it is declared, allocated
\* and reallocated.
MaxNumElems == 2
TypeIDs == {"int", "double"}

DataViews ==
  {[m_is_opaque |-> TRUE, m_is_applied |-> FALSE, m_schema |-> NoSchema,
    m_data_buffer |-> ATK_NULLPTR],
   [m_is_opaque |-> FALSE, m_is_applied |-> FALSE, m_schema |-> NoSchema,
    m_data_buffer |-> ATK_NULLPTR],
   [m_is_opaque |-> FALSE, m_is_applied |-> FALSE, m_schema |-> NoSchema,
    m_data_buffer |-> createBuffer]}

InitDataView ==
  \E build \in Builds, v \in DataViews :
    /\ AXOM_DEBUG = build[1]
    /\ is_trivially_destructible = build[2]
    /\ NoArray
    /\ m_capacity = 0
    /\ m_data = NullPtr
    /\ last = NoOp
    /\ m_allocator_id = getAllocatorID("Dynamic")
    /\ views = <<>>
    /\ heap = EmptyHeap
    /\ caller_ptr = nullptr
    /\ m_view = <<>>
    /\ s_mem_space = [tu \in TUs |-> HOST]
    /\ arrays = <<>>
    /\ dataview = v

\* What an operation on the DataView leaves of the state.
DataViewStep(name, r, type, numelems) ==
  /\ abort_msg = ""
  /\ dataview' = r.view
  /\ abort_msg' = r.abort_msg
  /\ last' = [Op(name) EXCEPT !.n = numelems, !.other = type]
  /\ UNCHANGED <<AXOM_DEBUG, is_trivially_destructible, m_dims, m_strides,
                 m_num_tuples, m_capacity, m_num_components, m_resize_ratio,
                 m_is_external, m_data, ctor_log, dtor_log, m_allocator_id,
                 views, heap, caller_ptr, m_view, s_mem_space, arrays>>

NumElems == (-1)..MaxNumElems

\* view->declare(type, numelems)
DvDeclare ==
  \E type \in TypeIDs, numelems \in NumElems :
    DataViewStep("declare", declare(dataview, type, numelems), type, numelems)

\* view->allocate()
DvAllocate ==
  DataViewStep("allocate", allocate0(dataview), "", 0)

\* view->allocate(type, numelems)
DvAllocateTyped ==
  \E type \in TypeIDs, numelems \in NumElems :
    DataViewStep("allocate", allocate2(dataview, type, numelems), type, numelems)

\* view->reallocate(numelems)
DvReallocate ==
  \E numelems \in NumElems, crash \in BOOLEAN :
    DataViewStep("reallocate", reallocate1(dataview, numelems, crash), "", numelems)

\* view->reallocate(DataType(type, numelems))
DvReallocateTyped ==
  \E type \in TypeIDs, numelems \in 0..MaxNumElems, crash \in BOOLEAN :
    DataViewStep("reallocate", reallocate2(dataview, type, numelems, crash), type, numelems)

\* Another view is created on the buffer of this view, or destroyed.
DvOtherView ==
  /\ abort_msg = ""
  /\ dataview.m_data_buffer # ATK_NULLPTR
  /\ \E k \in {1, 2} :
       /\ k # dataview.m_data_buffer.num_views
       /\ DataViewStep("other_view",
                       Done([dataview EXCEPT !.m_data_buffer.num_views = k]),
                       "", k)

NextDataView ==
  \/ DvDeclare
  \/ DvAllocate
  \/ DvAllocateTyped
  \/ DvReallocate
  \/ DvReallocateTyped
  \/ DvOtherView

SpecDataView == InitDataView /\ [][NextDataView]_vars

\* ------------------------------------------------------- external data
\* A container over a buffer the caller owns: elements are written, values
\* appended, the container resized and reserved, and in the end destroyed.
MaxExternal == 2
ExternalBuffers ==
  UNION {[1..n -> Vals] : n \in 1..MaxExternal}

InitExt ==
  \E build \in Builds, x \in ExternalBuffers :
    LET a == Array_external(x)
    IN /\ AXOM_DEBUG = build[1]
       /\ is_trivially_destructible = TRUE
       /\ m_dims = a.m_dims
       /\ m_strides = a.m_strides
       /\ m_num_tuples = a.m_num_tuples
       /\ m_capacity = a.m_capacity
       /\ m_num_components = a.m_num_components
       /\ m_resize_ratio = a.m_resize_ratio
       /\ m_is_external = a.m_is_external
       /\ m_data = a.m_data
       /\ abort_msg = ""
       /\ ctor_log = <<>>
       /\ dtor_log = <<>>
       /\ last = NoOp
       /\ m_allocator_id = getAllocatorID("Dynamic")
       /\ views = <<>>
       /\ heap = [cells |-> (OwnerAddr :> x), released |-> <<>>]
       /\ caller_ptr = OwnerAddr
       /\ NoOtherObjects

\* The container is alive and the process running.
ExtAlive == abort_msg = "" /\ m_data # NullPtr

\* The members after an operation, and the heap the operation leaves.
ExtCommit(a) ==
  /\ m_dims' = a.m_dims
  /\ m_strides' = a.m_strides
  /\ m_num_tuples' = a.m_num_tuples
  /\ m_capacity' = a.m_capacity
  /\ m_num_components' = a.m_num_components
  /\ m_resize_ratio' = a.m_resize_ratio
  /\ m_is_external' = a.m_is_external
  /\ m_data' = a.m_data
  /\ abort_msg' = a.abort_msg
  /\ ctor_log' = a.ctor_log
  /\ dtor_log' = a.dtor_log
  /\ heap' = IF a.abort_msg # "" /\ a.m_capacity = m_capacity THEN heap
             ELSE Backing(heap, Self, a, OwnerAddr).heap
  /\ UNCHANGED <<AXOM_DEBUG, is_trivially_destructible, m_allocator_id,
                 views, caller_ptr, other_objects>>

\* array[i] = value
ExtWrite ==
  \E i \in 0..(m_num_tuples - 1), value \in Vals :
    /\ ExtAlive
    /\ ExtCommit([Self EXCEPT !.m_data[i + 1] = value])
    /\ last' = [Op("write") EXCEPT !.pos = i, !.value = value]

\* array.append(value)
ExtAppend ==
  \E value \in Vals :
    /\ ExtAlive
    /\ ExtCommit(Array_append(Self, value, TRUE))
    /\ last' = [Op("append") EXCEPT !.value = value, !.copy = m_data]

\* array.resize(n)
ExtResize ==
  \E n \in 0..(MaxExternal + 1) :
    /\ ExtAlive
    /\ ExtCommit(Array_resize(Self, n, TRUE))
    /\ last' = [Op("resize") EXCEPT !.n = n, !.copy = m_data]

\* array.reserve(n)
ExtReserve ==
  \E n \in 0..(MaxExternal + 1) :
    /\ ExtAlive
    /\ ExtCommit(Array_reserve(Self, n, TRUE))
    /\ last' = [Op("reserve") EXCEPT !.n = n, !.copy = m_data]

\* The container goes out of scope.
ExtDestroy ==
  /\ ExtAlive
  /\ heap' = Array_dtor(Self, heap, OwnerAddr).heap
  /\ m_data' = NullPtr
  /\ m_num_tuples' = 0
  /\ m_capacity' = 0
  /\ last' = [Op("dtor") EXCEPT !.copy = m_data]
  /\ UNCHANGED <<AXOM_DEBUG, is_trivially_destructible, m_dims, m_strides,
                 m_num_components, m_resize_ratio, m_is_external, abort_msg,
                 ctor_log, dtor_log, m_allocator_id, views, caller_ptr,
                 other_objects>>

NextExt ==
  \/ ExtWrite
  \/ ExtAppend
  \/ ExtResize
  \/ ExtReserve
  \/ ExtDestroy

SpecExt == InitExt /\ [][NextExt]_vars

\* ------------------------------------------------------ a program of Arrays
\* Two owning Array objects of one program, each holding its buffer by
\* address: they are constructed, copied and moved into one another,
\* written, resized and destroyed.  last.pos is the object operated on and
\* last.idx the one copied or moved from; last.copy is <<j, k>> from the
\* step that made k a copy of j for as long as the two are only written,
\* resized and destroyed.  OwnSizes are the sizes asked for: none,
\* one element, and more than one.
OwnSizes == {0, 1, 2}
ArrayIds == {1, 2}

\* An object whose lifetime has not begun or has ended.
Ended ==
  [alive |-> FALSE, m_data |-> nullptr, m_num_elements |-> 0, m_capacity |-> 0]

\* The valid empty state: no buffer, size 0, capacity 0.
EmptyArray ==
  [alive |-> TRUE, m_data |-> nullptr, m_num_elements |-> 0, m_capacity |-> 0]

\* The members of an object with the slots of its block, the record the
\* container's operations work on.  The objects are constructed with a
\* resize ratio of 1.0.
Members(o, h) ==
  [m_dims |-> <<>>, m_strides |-> <<>>, m_num_tuples |-> o.m_num_elements,
   m_capacity |-> o.m_capacity, m_num_components |-> 1, m_resize_ratio |-> 2,
   m_is_external |-> FALSE,
   m_data |-> IF o.m_data \in DOMAIN h.cells THEN h.cells[o.m_data] ELSE NullPtr,
   abort_msg |-> "", ctor_log |-> <<>>, dtor_log |-> <<>>]

\* The object whose members are a's and whose block is at ptr.
Object(a, ptr) ==
  [alive |-> TRUE, m_data |-> ptr, m_num_elements |-> a.m_num_tuples,
   m_capacity |-> a.m_capacity]

\* Array::Array(n): a buffer of n default-constructed elements.
Array_new(h, n) ==
  LET a == Array_ctor(<<n>>, n, 2)
      b == Backing(h, a, a, nullptr)
  IN [array |-> Object(a, b.ptr), heap |-> b.heap, ctor_log |-> a.ctor_log]

\* A copy that takes the other's buffer pointer.
Array_copy_shallow(other, h) ==
  [array |-> other, heap |-> h, ctor_log |-> <<>>]

\* Array::Array(const Array& other): a buffer of its own, each element of
\* [0, size) copy-constructed from the other's.
Array_copy(other, h) ==
  LET src == Members(other, h)
      a == [src EXCEPT
              !.m_data = IF src.m_data = NullPtr THEN NullPtr
                         ELSE [i \in 1..src.m_capacity |->
                                 IF i <= size(src) THEN src.m_data[i] ELSE Raw],
              !.ctor_log = [i \in 1..size(src) |-> i - 1]]
      b == Backing(h, a, a, nullptr)
  IN [array |-> Object(a, b.ptr), heap |-> b.heap, ctor_log |-> a.ctor_log]

\* A move that leaves the source its pointer.
Array_move_keeps_source(other, h) ==
  [array |-> other, other |-> other, heap |-> h]

\* Array::Array(Array&& other): the buffer pointer, size and capacity are
\* taken; the source is left in the valid empty state.
Array_move(other, h) ==
  [array |-> other, other |-> EmptyArray, heap |-> h]

\* Array::operator=(const Array& other): the elements this held are
\* destroyed and its buffer released, then the other is copied.
Array_copy_assign(this, other, h) ==
  LET d == Array_dtor(Members(this, h), h, this.m_data)
      c == Array_copy(other, d.heap)
  IN [array |-> c.array, heap |-> c.heap, ctor_log |-> c.ctor_log,
      events |-> d.events]

\* Array::operator=(Array&& other): the elements this held are destroyed
\* and its buffer released, then the other's buffer is taken.
Array_move_assign(this, other, h) ==
  LET d == Array_dtor(Members(this, h), h, this.m_data)
      m == Array_move(other, d.heap)
  IN [array |-> m.array, other |-> m.other, heap |-> m.heap,
      events |-> d.events]

InitOwn ==
  \E build \in Builds :
    /\ AXOM_DEBUG = build[1]
    /\ is_trivially_destructible = build[2]
    /\ NoArray
    /\ m_capacity = 0
    /\ m_data = NullPtr
    /\ last = NoOp
    /\ m_allocator_id = getAllocatorID("Dynamic")
    /\ views = <<>>
    /\ heap = EmptyHeap
    /\ caller_ptr = nullptr
    /\ m_view = <<>>
    /\ s_mem_space = [tu \in TUs |-> HOST]
    /\ arrays = [k \in ArrayIds |-> Ended]
    /\ dataview = <<>>

OwnFrame ==
  UNCHANGED <<AXOM_DEBUG, is_trivially_destructible, m_dims, m_strides,
              m_num_tuples, m_capacity, m_num_components, m_resize_ratio,
              m_is_external, m_data, abort_msg, m_allocator_id, views,
              caller_ptr, m_view, s_mem_space, dataview>>

\* The program may still release a block.
MayRelease == Len(heap.released) < MaxReleased

\* Array<T> k(n);
OwnConstruct ==
  \E k \in ArrayIds, n \in OwnSizes :
    LET r == Array_new(heap, n)
    IN /\ ~arrays[k].alive
       /\ arrays' = [arrays EXCEPT ![k] = r.array]
       /\ heap' = r.heap
       /\ ctor_log' = r.ctor_log
       /\ dtor_log' = <<>>
       /\ last' = [Op("ctor") EXCEPT !.pos = k]
       /\ OwnFrame

\* Array<T> k(j);
OwnCopy ==
  \E k \in ArrayIds, j \in ArrayIds :
    LET r == Array_copy(arrays[j], heap)
    IN /\ k # j /\ ~arrays[k].alive /\ arrays[j].alive
       /\ arrays' = [arrays EXCEPT ![k] = r.array]
       /\ heap' = r.heap
       /\ ctor_log' = r.ctor_log
       /\ dtor_log' = <<>>
       /\ last' = [Op("copy") EXCEPT !.pos = k, !.idx = j, !.copy = <<j, k>>]
       /\ OwnFrame

\* Array<T> k(std::move(j));
OwnMove ==
  \E k \in ArrayIds, j \in ArrayIds :
    LET r == Array_move(arrays[j], heap)
    IN /\ k # j /\ ~arrays[k].alive /\ arrays[j].alive
       /\ arrays' = [arrays EXCEPT ![k] = r.array, ![j] = r.other]
       /\ heap' = r.heap
       /\ ctor_log' = <<>>
       /\ dtor_log' = <<>>
       /\ last' = [Op("move") EXCEPT !.pos = k, !.idx = j]
       /\ OwnFrame

\* k = j;
OwnCopyAssign ==
  \E k \in ArrayIds, j \in ArrayIds :
    LET r == Array_copy_assign(arrays[k], arrays[j], heap)
    IN /\ k # j /\ arrays[k].alive /\ arrays[j].alive /\ MayRelease
       /\ arrays' = [arrays EXCEPT ![k] = r.array]
       /\ heap' = r.heap
       /\ ctor_log' = r.ctor_log
       /\ dtor_log' = r.events
       /\ last' = [Op("copy_assign") EXCEPT
                     !.pos = k, !.idx = j, !.copy = <<j, k>>]
       /\ OwnFrame

\* k = std::move(j);
OwnMoveAssign ==
  \E k \in ArrayIds, j \in ArrayIds :
    LET r == Array_move_assign(arrays[k], arrays[j], heap)
    IN /\ k # j /\ arrays[k].alive /\ arrays[j].alive /\ MayRelease
       /\ arrays' = [arrays EXCEPT ![k] = r.array, ![j] = r.other]
       /\ heap' = r.heap
       /\ ctor_log' = <<>>
       /\ dtor_log' = r.events
       /\ last' = [Op("move_assign") EXCEPT !.pos = k, !.idx = j]
       /\ OwnFrame

\* k[i] = value;
OwnWrite ==
  \E k \in ArrayIds, value \in Vals :
    \E i \in 0..(arrays[k].m_num_elements - 1) :
      /\ arrays[k].alive
      /\ arrays[k].m_data \in DOMAIN heap.cells
      /\ heap' = [heap EXCEPT !.cells[arrays[k].m_data][i + 1] = value]
      /\ ctor_log' = <<>>
      /\ dtor_log' = <<>>
      /\ last' = [Op("write") EXCEPT !.pos = k, !.copy = last.copy]
      /\ UNCHANGED arrays
      /\ OwnFrame

\* k.resize(n);
OwnResize ==
  \E k \in ArrayIds, n \in OwnSizes :
    LET a == Members(arrays[k], heap)
        b == Array_resize(a, n, TRUE)
        s == Backing(heap, a, b, arrays[k].m_data)
    IN /\ arrays[k].alive /\ MayRelease
       /\ arrays' = [arrays EXCEPT ![k] = Object(b, s.ptr)]
       /\ heap' = s.heap
       /\ ctor_log' = b.ctor_log
       /\ dtor_log' = Destroyed(b.dtor_log)
       /\ last' = [Op("resize") EXCEPT !.pos = k, !.copy = last.copy]
       /\ OwnFrame

\* The lifetime of k ends.
OwnDestroy ==
  \E k \in ArrayIds :
    LET r == Array_dtor(Members(arrays[k], heap), heap, arrays[k].m_data)
    IN /\ arrays[k].alive /\ MayRelease
       /\ arrays' = [arrays EXCEPT ![k] = Ended]
       /\ heap' = r.heap
       /\ ctor_log' = <<>>
       /\ dtor_log' = r.events
       /\ last' = [Op("dtor") EXCEPT
                     !.pos = k, !.copy = last.copy,
                     !.pre_num_tuples = arrays[k].m_num_elements,
                     !.pre_capacity = arrays[k].m_capacity]
       /\ OwnFrame

NextOwn ==
  \/ OwnConstruct
  \/ OwnCopy
  \/ OwnMove
  \/ OwnCopyAssign
  \/ OwnMoveAssign
  \/ OwnWrite
  \/ OwnResize
  \/ OwnDestroy

SpecOwn == InitOwn /\ [][NextOwn]_vars

\* ------------------------------------------------------------------ claims
Max(x, y) == IF x >= y THEN x ELSE y
Min(x, y) == IF x <= y THEN x ELSE y

\* The row-major stride tuple of a shape: 1 on the last axis, and on every
\* other axis the stride of the next axis times the extent of the next axis.
RowMajor(dims, strd) ==
  /\ Len(strd) = Len(dims)
  /\ dims # <<>> => strd[Len(dims)] = 1
  /\ \A i \in 1..(Len(dims) - 1) : strd[i] = strd[i + 1] * dims[i + 1]

\* C1: after construction, a metadata copy, insert, swap or resize, in every
\* order, the strides of the array (and of the copy made, and of the array
\* swapped with) are the row-major strides of its shape, and running
\* updateStrides() again leaves them as they are.
C1_StridesRowMajor ==
  /\ RowMajor(m_dims, strides(Self))
  /\ m_dims # <<>> => updateStrides(m_dims, m_strides) = m_strides
  /\ last.op = "copy" =>
       /\ last.copy.m_dims = m_dims
       /\ RowMajor(last.copy.m_dims, last.copy.m_strides)
  /\ last.op = "swap" => RowMajor(last.other.m_dims, last.other.m_strides)

\* C1 witness: a 3-D array whose leading extent an insert has grown to 2.
C1_Witness ==
  /\ last.op = "insert"
  /\ abort_msg = ""
  /\ Len(m_dims) = 3
  /\ m_dims[1] = 2
  /\ m_strides = <<2, 2, 1>>

\* C2: between calls, 0 <= size() <= capacity(): the live tuples are never
\* negative and never more than the tuples allocated, whatever sequence of
\* construct, resize, append, insert, reserve and shrink led here.
C2_SizeWithinCapacity ==
  /\ 0 <= size(Self)
  /\ m_num_tuples <= m_capacity
  /\ size(Self) <= m_capacity * m_num_components

\* C2 witness: a growing call has filled the array to its capacity.
C2_Witness ==
  /\ last.op \in {"resize", "append", "insert"}
  /\ last.realloc
  /\ abort_msg = ""
  /\ m_num_tuples = m_capacity
  /\ m_num_tuples >= 2

\* C3: a resize, append, insert or reserve never leaves the capacity smaller
\* than it found it; only shrink() does.
C3_CapacityNeverDecreases ==
  last.op \in {"resize", "append", "insert", "reserve", "copy"} =>
    m_capacity >= last.pre_capacity

\* C3 witness: a resize to fewer tuples has kept the larger capacity.
C3_Witness ==
  /\ last.op = "resize"
  /\ m_num_tuples < last.pre_num_tuples
  /\ m_capacity = last.pre_capacity
  /\ m_capacity > m_num_tuples

\* Whether the last call went through dynamicRealloc and passed its guards,
\* so that the new capacity was assigned.
Regrown ==
  /\ last.op \in {"resize", "append", "insert"}
  /\ last.realloc
  /\ m_resize_ratio >= 2

\* C4 (as amended): a resize, append or insert that needs n tuples and finds
\* n > capacity sets the capacity to n * ratio + 0.5 truncated, n being the
\* number of tuples asked for; an array of size 3, capacity 3 and ratio 2.0
\* that has a 4th element appended ends with capacity 8.
C4_CapacityFromRequest ==
  Regrown => m_capacity = (last.n * m_resize_ratio + 1) \div 2

\* C4 witness: size 3, capacity 3, ratio 2.0, a 4th element appended.
C4_Witness ==
  /\ last.op = "append"
  /\ last.pre_num_tuples = 3
  /\ last.pre_capacity = 3
  /\ m_resize_ratio = 4
  /\ abort_msg = ""
  /\ m_num_tuples = 4
  /\ m_capacity = 8

\* C4 as first stated: the new capacity is max(n, size * ratio), size being
\* the element count before the call, rounded either way.
C4_CapacityFromSize ==
  Regrown =>
    m_capacity \in
      {Max(last.n, (last.pre_num_tuples * m_resize_ratio) \div 2),
       Max(last.n, (last.pre_num_tuples * m_resize_ratio + 1) \div 2)}

\* The slots begin .. end - 1, in order.
Range(begin, end) ==
  IF end <= begin THEN <<>> ELSE [k \in 1..(end - begin) |-> begin + k - 1]

\* C5: an append that completes on an array of size s leaves size s + 1, the
\* elements at [0, s) as they were and in the same order, and the appended
\* value at index s, whether or not it reallocated.
C5_AppendKeepsPrefix ==
  [][(last'.op = "append" /\ abort_msg' = "") =>
       /\ size(Self') = size(Self) + 1
       /\ \A i \in 1..size(Self) : m_data'[i] = m_data[i]
       /\ m_data'[size(Self) + 1] = last'.value]_vars

\* C5 witness: a reallocating append has put 1 after the elements 0, 1.
C5_Witness ==
  /\ last.op = "append"
  /\ last.realloc
  /\ abort_msg = ""
  /\ m_num_tuples = 3
  /\ SubSeq(m_data, 1, 3) = <<0, 1, 1>>

\* C6: a shrink() that completes leaves the capacity equal to the size, and
\* the size and the elements at [0, size) as they were, whatever the size and
\* the capacity before.
C6_ShrinkToSize ==
  [][(last'.op = "shrink" /\ abort_msg' = "") =>
       /\ m_capacity' = m_num_tuples'
       /\ m_capacity' * m_num_components' = size(Self')
       /\ size(Self') = size(Self)
       /\ Len(m_data') = size(Self)
       /\ \A i \in 1..size(Self) : m_data'[i] = m_data[i]]_vars

\* C6 witness: a shrink has lowered the capacity of a two-tuple array.
C6_Witness ==
  /\ last.op = "shrink"
  /\ abort_msg = ""
  /\ last.pre_capacity > m_capacity
  /\ m_num_tuples = 2
  /\ m_capacity = 2

C8_InsertShifts ==
  [][(/\ last'.op = "insert"
      /\ abort_msg' = ""
      /\ ~Mismatched(Self, last'.other)) =>
       LET o == last'.other
           pos == last'.pos
           old == size(Self)
       IN /\ shape(Self')[1] = shape(Self)[1] + o.m_dims[1]
          /\ Tail(shape(Self')) = Tail(shape(Self))
          /\ strides(Self') = strides(Self)
          /\ size(Self') = old + o.size
          /\ \A i \in 1..pos : m_data'[i] = m_data[i]
          /\ \A i \in (pos + 1)..old : m_data'[i + o.size] = m_data[i]
          /\ \A j \in 1..o.size : m_data'[pos + j] = o.data[j]]_vars

\* C8 witness: a {1,1,2} array holding 1, 1 inserted in front of the tuple
\* 0, 0 of a {1,1,2} array.
C8_Witness ==
  /\ last.op = "insert"
  /\ abort_msg = ""
  /\ last.pos = 0
  /\ last.pre_num_tuples = 1
  /\ last.other.m_dims = <<1, 1, 2>>
  /\ m_dims = <<2, 1, 2>>
  /\ SubSeq(m_data, 1, 4) = <<1, 1, 0, 0>>

InRange(indices, dims) ==
  \A k \in 1..Len(dims) : indices[k] >= 0 /\ indices[k] < dims[k]

\* The row-major offset of a multi-index, by Horner's rule over the extents.
RECURSIVE RowMajorOffset(_, _, _)
RowMajorOffset(dims, indices, k) ==
  IF k = 0 THEN 0
  ELSE RowMajorOffset(dims, indices, k - 1) * dims[k] + indices[k]

\* The sum over k of i_k * strides()[k].
RECURSIVE StrideSum(_, _)
StrideSum(indices, k) ==
  IF k = 0 THEN 0 ELSE StrideSum(indices, k - 1) + indices[k] * m_strides[k]

\* C10: for an in-range multi-index, operator() reads the element that
\* operator[] reads at the sum of i_k * strides()[k], which is the row-major
\* offset of the multi-index; on a shape {2,3} array filled row-major with
\* 0..5, arr(1,2) is 5, arr(0,0) is 0, and arr[4] and arr(1,1) are both 4.
C10_ParenIsBracketOfStrideSum ==
  /\ (last.op = "operator()" /\ InRange(last.indices, m_dims)) =>
       /\ abort_msg = ""
       /\ last.idx = StrideSum(last.indices, Len(m_dims))
       /\ last.idx = RowMajorOffset(m_dims, last.indices, Len(m_dims))
       /\ Deref(Self, StrideSum(last.indices, Len(m_dims))) = {last.value}
  /\ (last.op = "operator()" /\ m_dims = <<2, 3>>) =>
       /\ last.indices = <<1, 2>> => last.value = 5
       /\ last.indices = <<0, 0>> => last.value = 0
       /\ last.indices = <<1, 1>> => last.value = 4
  /\ (last.op = "operator[]" /\ m_dims = <<2, 3>> /\ last.idx = 4) =>
       last.value = 4

\* C10 witness: arr(1,2) has read 5 from the shape {2,3} array.
C10_Witness ==
  /\ last.op = "operator()"
  /\ m_dims = <<2, 3>>
  /\ m_data = <<0, 1, 2, 3, 4, 5>>
  /\ last.indices = <<1, 2>>
  /\ last.idx = 5
  /\ last.value = 5

\* C11 as stated: in a debug build operator() fails its bounds assertion
\* whenever some index lies outside its axis, also when the flattened offset
\* is inside [0, size()), and operator[] fails its assertion whenever idx is
\* outside [0, size()).
C11_AnyIndexOutOfRangeAsserts ==
  /\ (AXOM_DEBUG /\ last.op = "operator()"
        /\ ~InRange(last.indices, m_dims)) => abort_msg = "inBounds(idx)"
  /\ (AXOM_DEBUG /\ last.op = "operator[]"
        /\ ~inBounds(Self, last.idx)) => abort_msg = "inBounds(idx)"

\* The array-like the last view was made from: the array, or views[last.n].
SourceOfLast ==
  IF last.op = "view_from_view"
  THEN [ptr |-> views[last.n].m_data, size |-> View_size(views[last.n]),
        shape |-> View_shape(views[last.n]),
        strides |-> views[last.n].m_strides,
        allocator_id |-> views[last.n].m_allocator_id]
  ELSE [ptr |-> data(Self), size |-> size(Self), shape |-> shape(Self),
        strides |-> strides(Self), allocator_id |-> m_allocator_id]

\* C12: a view made from an array-like has the source's data pointer, size,
\* shape, strides and allocator ID, and making it constructs no element and
\* allocates no block; what is written at index i through a view is what the
\* source holds at i, and what is written at i through the source is what
\* every view over it reads at i.
C12_ViewAliasesSource ==
  /\ (last.op \in {"view_from_array", "view_from_view"} /\ abort_msg = "")
       => LET v == views[Len(views)]
          IN /\ v.m_data = SourceOfLast.ptr
             /\ View_size(v) = SourceOfLast.size
             /\ View_shape(v) = SourceOfLast.shape
             /\ v.m_strides = SourceOfLast.strides
             /\ v.m_allocator_id = SourceOfLast.allocator_id
             /\ ctor_log = <<>>
             /\ DOMAIN heap.cells = {data(Self)}
  /\ last.op = "view_write" => Deref(Self, last.idx) = {last.value}
  /\ last.op = "owner_write"
       => \A k \in 1..Len(views) :
            Load(heap, views[k].m_data, last.idx) = last.value

C12_Witness ==
  /\ last.op = "view_write" /\ last.value = 1 /\ last.idx = 1
  /\ Len(views) = 2
  /\ views[2].m_allocator_id = 0 /\ views[2].SPACE = "Device"
  /\ views[1].SPACE = "Dynamic"

\* The operations of a view.
ViewOps ==
  {"view_from_array", "view_from_view", "view_from_pointer", "view_copy",
   "view_write", "const_view_write", "view_read", "view_iterate",
   "view_destroy"}

\* C13: no view operation (construction from a pointer or an array-like,
\* copy, element access, iteration, destruction) allocates, reallocates or
\* frees a block, and none changes the owner's size or capacity.
C13_ViewsLeaveAllocationAlone ==
  [][last'.op \in ViewOps
       => /\ DOMAIN heap'.cells = DOMAIN heap.cells
          /\ \A a \in DOMAIN heap.cells :
               Len(heap'.cells[a]) = Len(heap.cells[a])
          /\ heap'.released = heap.released
          /\ m_num_tuples' = m_num_tuples
          /\ m_capacity' = m_capacity]_vars

C13_Witness ==
  /\ last.op = "view_destroy" /\ Len(views) = 1
  /\ views[1].m_data = last.pos
  /\ data(Self) \in DOMAIN heap.cells /\ heap.released = <<>>

C15_AllocatorChecked ==
  last.op \in {"view_from_array", "view_from_view"}
    => LET made == abort_msg = ""
           v == IF made THEN views[Len(views)] ELSE last.other
           mismatch == /\ v.SPACE # "Dynamic"
                       /\ SourceOfLast.allocator_id # getAllocatorID(v.SPACE)
       IN /\ (AXOM_DEBUG /\ mismatch) => abort_msg = AllocatorDiagnostic
          /\ ~mismatch => made /\ v.m_allocator_id = SourceOfLast.allocator_id

C15_Witness ==
  /\ last.op = "view_from_view" /\ abort_msg = AllocatorDiagnostic
  /\ last.other.SPACE = "Device" /\ views[last.n].m_allocator_id = 0

\* C16 as stated: alloc<T>(n, space) returns null when n == 0 and, for n > 0
\* and a valid space, null or a pointer to storage for n elements.
C16_AllocNullOrRoomForN ==
  (last.op = "alloc" /\ abort_msg = "" /\ last.pos = HOST)
    => /\ last.n = 0 => caller_ptr = nullptr
       /\ last.n > 0 => \/ caller_ptr = nullptr
                        \/ /\ caller_ptr \in DOMAIN heap.cells
                           /\ Len(heap.cells[caller_ptr]) = last.n

C18_ReallocGivesNWithPrefix ==
  [][last'.op = "realloc"
       => /\ last'.n = 0
               => /\ caller_ptr' = nullptr
                  /\ caller_ptr \notin DOMAIN heap'.cells
          /\ last'.n > 0
               => /\ caller_ptr' \in DOMAIN heap'.cells
                  /\ Len(heap'.cells[caller_ptr']) = last'.n
                  /\ \A i \in 1..Min(Len(Pointee), last'.n) :
                       heap'.cells[caller_ptr'][i] = Pointee[i]]_vars

\* C19: fill(array, n, v) sets each of the first n elements to v and leaves
\* every element of [n, capacity) as it was, for every n in [0, capacity].
C19_FillFirstN ==
  [][last'.op = "fill"
       => /\ Len(m_data') = Len(m_data)
          /\ \A i \in 1..Len(m_data) :
               m_data'[i] = IF i <= last'.n THEN last'.value ELSE m_data[i]]_vars

C19_Witness ==
  /\ last.op = "fill" /\ last.n = 2 /\ last.value = 1
  /\ m_data = <<1, 1, 0>>

\* The indices of [begin, end) in increasing order.
Indices(begin, end) ==
  [k \in 1..Max(end - begin, 0) |-> begin + k - 1]

\* C20: destroy(array, b, e) runs the destructor of each element of [b, e)
\* once, in order, and of no other element; for a trivially destructible
\* type it runs none and changes nothing; every element a destructor runs on
\* was live and holds no object afterwards, so none is destroyed twice.
C20_DestroyOncePerElement ==
  [][/\ last'.op = "destroy"
          => IF is_trivially_destructible
             THEN dtor_log' = <<>> /\ m_data' = m_data
             ELSE /\ dtor_log' = Indices(last'.pos, last'.n)
                  /\ \A i \in 1..Len(m_data) :
                       m_data'[i] = IF i - 1 >= last'.pos /\ i - 1 < last'.n
                                    THEN Raw ELSE m_data[i]
     /\ \A k \in 1..Len(dtor_log') :
          /\ m_data[dtor_log'[k] + 1] # Raw
          /\ m_data'[dtor_log'[k] + 1] = Raw
          /\ \A j \in 1..Len(dtor_log') : dtor_log'[j] = dtor_log'[k] => j = k]_vars

C20_Witness ==
  /\ last.op = "destroy" /\ last.pos = 1 /\ last.n = 3
  /\ dtor_log = <<1, 2>> /\ m_data = <<1, Raw, Raw>>

\* C21: move(data, src_begin, src_end, dst), through either implementation,
\* leaves data[dst + k] equal to the pre-call data[src_begin + k] for every k
\* of [0, src_end - src_begin), overlapping ranges included, and every slot
\* outside the destination range as it was.
C21_MoveIsMemmove ==
  [][(last'.op = "move" /\ ~last'.threw) =>
       LET nelems == last'.n - last'.pos
       IN /\ \A k \in 0..(nelems - 1) :
               m_data'[last'.idx + k + 1] = m_data[last'.pos + k + 1]
          /\ \A i \in 1..Len(m_data) :
               (i - 1 < last'.idx \/ i - 1 >= last'.idx + nelems) =>
                 m_data'[i] = m_data[i]
          /\ Len(m_data') = Len(m_data)]_vars

\* A two-element range was moved one slot up over itself.
C21_Witness ==
  /\ last.op = "move" /\ ~last.threw /\ ~IsDevice
  /\ last.pos = 0 /\ last.n = 2 /\ last.idx = 1
  /\ m_data = <<0, 0, 1>>

\* A staged call returned with the buffer contents of the plain call and with
\* no block on the heap that was not there before.
SameOutcome(staged, plain) ==
  /\ ~staged.threw
  /\ staged.a.m_data = plain.a.m_data
  /\ DOMAIN staged.heap.cells = DOMAIN heap.cells

\* C26: for both element types and every range of the buffer, the host-staging
\* init, fill, destroy and move leave the buffer with the contents the
\* non-staging implementations give on the same arguments, and no scratch
\* block is left allocated when an operation has returned.
C26_StagingSameAsPlain ==
  /\ DOMAIN heap.cells = {}
  /\ \A begin \in 0..Len(m_data), end \in 0..Len(m_data) :
       begin <= end =>
         /\ SameOutcome(ArrayOps_init(TRUE, Self, heap, begin, end, TRUE),
                        ArrayOps_init(FALSE, Self, heap, begin, end, TRUE))
         /\ SameOutcome(ArrayOps_destroy(TRUE, Self, heap, begin, end, TRUE),
                        ArrayOps_destroy(FALSE, Self, heap, begin, end, TRUE))
         /\ \A dst \in 0..(Len(m_data) - (end - begin)) :
              SameOutcome(ArrayOps_move(TRUE, Self, heap, begin, end, dst, TRUE),
                          ArrayOps_move(FALSE, Self, heap, begin, end, dst, TRUE))
  /\ \A n \in 0..Len(m_data), value \in Vals, CopyOnHost \in BOOLEAN :
       SameOutcome(ArrayOps_fill(TRUE, Self, heap, n, value, CopyOnHost, TRUE),
                   ArrayOps_fill(FALSE, Self, heap, n, value, CopyOnHost, TRUE))

\* A device buffer of a type with a destructor, partly filled, after a staged
\* destroy whose scratch block is the second one released.
C26_Witness ==
  /\ IsDevice /\ ~is_trivially_destructible
  /\ last.op = "destroy" /\ ~last.threw
  /\ dtor_log = <<1>>
  /\ m_data = <<1, Raw, Raw>>
  /\ heap.released = <<1, 1>>

\* C25: a sidre Array built from a non-empty two-dimensional view has
\* capacity() equal to the view's dimension 0 and numComponents() equal to
\* the view's dimension 1.
C25_CapacityIsViewDimension0 ==
  (last.op = "from_view" /\ abort_msg = "")
    => /\ m_capacity = getDimension(m_view, 0)
       /\ m_num_components = getDimension(m_view, 1)

\* C29: setCapacity(c) with c below the number of tuples lowers the number of
\* tuples to c, in the view's description too when there is a view, before
\* the reallocation, which finds no more tuples than capacity; with c at or
\* above the number of tuples the number of tuples stays.
C29_SetCapacityLowersTuplesFirst ==
  (last.op = "setCapacity" /\ abort_msg = "")
    => /\ last.n < last.pre_num_tuples
            => /\ m_num_tuples = last.n
               /\ m_view # nullview => getDimension(m_view, 0) = last.n
       /\ last.n >= last.pre_num_tuples => m_num_tuples = last.pre_num_tuples
       /\ last.pos <= last.idx
       /\ last.idx = last.n
       /\ m_capacity = last.n

\* The capacity of a view-backed array of two tuples was set to one.
C29_Witness ==
  /\ last.op = "setCapacity" /\ abort_msg = "" /\ m_view # nullview
  /\ last.pre_num_tuples = 2 /\ last.n = 1
  /\ m_num_tuples = 1 /\ m_view.shape = <<1, m_num_components>>
  /\ Len(m_data) = m_num_components

\* C28: an alloc call that passes no space allocates in the space of the
\* latest setDefaultMemorySpace call, in HOST when there was none; an alloc
\* call that passes a space allocates in that space; no alloc call changes
\* the default.
C28_DefaultSpaceIsProcessWide ==
  last.op = "alloc"
    => /\ ~last.explicit => last.pos = last.space_set
       /\ last.explicit => last.pos = last.n
       /\ s_mem_space = last.copy

\* The view is opaque or shares its buffer with another view.
OpaqueOrShared(v) ==
  isOpaque(v) \/ (v.m_data_buffer # ATK_NULLPTR /\ v.m_data_buffer.num_views > 1)

\* C30: an allocate or reallocate call changes the buffer only of a view
\* that is not opaque and whose buffer is absent or attached to that view
\* alone; on an opaque view or a view that shares its buffer the call leaves
\* schema, applied flag and buffer as they were; a reallocate with a type
\* other than the view's changes nothing.
C30_AllocateOnlyWhenValid ==
  [][last'.op \in {"allocate", "reallocate"}
       => /\ dataview'.m_data_buffer # dataview.m_data_buffer
               => /\ ~isOpaque(dataview)
                  /\ \/ dataview.m_data_buffer = ATK_NULLPTR
                     \/ dataview.m_data_buffer.num_views = 1
          /\ OpaqueOrShared(dataview) => dataview' = dataview
          /\ (last'.op = "reallocate" /\ last'.other \in TypeIDs
              /\ last'.other # dataview.m_schema.type)
               => dataview' = dataview]_vars

\* A release build went on after an allocate on a view that shares its
\* allocated buffer with another view.
C30_Witness ==
  /\ last.op = "allocate" /\ last.other = "double" /\ last.n = 2
  /\ abort_msg = "" /\ ~AXOM_DEBUG
  /\ dataview.m_data_buffer # ATK_NULLPTR
  /\ dataview.m_data_buffer.num_views = 2
  /\ dataview.m_data_buffer.allocated
  /\ dataview.m_schema = [type |-> "int", numelems |-> 1]

\* The call asks for more room than the external buffer has.
NeedsGrowth ==
  \/ last.op = "append" /\ last.pre_num_tuples + 1 > last.pre_capacity
  \/ last.op \in {"resize", "reserve"} /\ last.n > last.pre_capacity

Owners(ptr) == {k \in ArrayIds : arrays[k].alive /\ arrays[k].m_data = ptr}

\* Every block of the heap is the buffer of exactly one live Array, and an
\* object holds either no buffer or, while alive, a block of the heap.
ExclusivelyOwned ==
  /\ \A ptr \in DOMAIN heap.cells : Cardinality(Owners(ptr)) = 1
  /\ \A k \in ArrayIds :
       \/ arrays[k].m_data = nullptr
       \/ arrays[k].alive /\ arrays[k].m_data \in DOMAIN heap.cells
  /\ (\A k \in ArrayIds : ~arrays[k].alive) => DOMAIN heap.cells = {}

\* A step that moves j into k: k has j's buffer with its slots, size and
\* capacity, and j is left with no buffer, size 0 and capacity 0.
MoveTransfers ==
  last'.op \in {"move", "move_assign"} =>
    LET k == last'.pos
        j == last'.idx
    IN /\ arrays'[k] = arrays[j]
       /\ arrays'[j] = EmptyArray
       /\ arrays[j].m_data # nullptr =>
            /\ arrays[j].m_data \in DOMAIN heap'.cells
            /\ heap'.cells[arrays[j].m_data] = heap.cells[arrays[j].m_data]

\* Every block a step releases was a block of the heap before the step.
ReleasesLiveBlocks ==
  \A i \in (Len(heap.released) + 1)..Len(heap'.released) :
    heap'.released[i] \in DOMAIN heap.cells

\* C22: a move construction or move assignment gives the destination the
\* source's buffer, size and capacity and leaves the source with no buffer,
\* size 0 and capacity 0; in every state each block of the heap is the
\* buffer of exactly one live Array, no step releases a block that is not
\* on the heap, and no block is left once both objects are destroyed.
C22_MoveTransfersOwnership ==
  /\ []ExclusivelyOwned
  /\ [][MoveTransfers /\ ReleasesLiveBlocks]_vars

\* A move assignment has released the destination's old buffer and handed
\* it the source's, and the source is empty.
C22_Witness ==
  /\ last.op = "move_assign"
  /\ arrays[last.pos].m_data # nullptr
  /\ arrays[last.pos].m_num_elements > 0
  /\ arrays[last.idx] = EmptyArray
  /\ Len(heap.released) = 1

\* What a program observes of an object: whether it is alive, its size
\* (its shape, the array having one axis) and its elements.
Observed(o, h) ==
  [alive |-> o.alive, size |-> o.m_num_elements,
   elements |-> IF o.m_num_elements = 0 THEN <<>>
                ELSE SubSeq(h.cells[o.m_data], 1, o.m_num_elements)]

\* A step that copies j into k: k has a buffer that is not j's, and the
\* size and the elements of j.
CopyDuplicates ==
  last'.op \in {"copy", "copy_assign"} =>
    LET k == last'.pos
        j == last'.idx
    IN /\ Observed(arrays'[k], heap') = Observed(arrays[j], heap)
       /\ arrays'[j].m_data # nullptr =>
            arrays'[k].m_data \notin {nullptr, arrays'[j].m_data}
       /\ arrays'[j].m_data = nullptr => arrays'[k].m_data = nullptr

\* A step that writes, resizes, destroys, constructs or copies into one
\* object leaves every other object as it was observed.
OthersUnchanged ==
  last'.op \notin {"move", "move_assign"} =>
    \A j \in ArrayIds \ {last'.pos} :
      Observed(arrays'[j], heap') = Observed(arrays[j], heap)

\* C23: a copy of an Array has a buffer of its own, and the size (shape)
\* and, element by element, the contents of the original; a later write to,
\* resize of or destruction of either of the two leaves the size, shape and
\* elements of the other unchanged.
C23_CopyIsIndependent == [][CopyDuplicates /\ OthersUnchanged]_vars

\* One of an Array and its copy has been resized since, and the two differ
\* in size.
C23_Witness ==
  /\ last.op = "resize"
  /\ last.copy # <<>>
  /\ arrays[1].alive /\ arrays[2].alive
  /\ arrays[1].m_num_elements # arrays[2].m_num_elements
  /\ arrays[1].m_data # arrays[2].m_data
  /\ arrays[last.copy[1]].m_num_elements > 0

====
